---- MODULE Spec2Model ----
(***************************************************************************)
(* Neewer BLE command-line controller: protocol codec, connection manager, *)
(* adaptive delivery engine, status querier and serve loop of              *)
(* src/neewer_cli.py, as a state machine.                                  *)
(*                                                                         *)
(* Text (names, addresses) is a sequence of one-character strings, so that *)
(* prefix, substring, split and hex parsing are computed as the code does. *)
(***************************************************************************)
EXTENDS Integers, Sequences, FiniteSets, TLC

\* ------------------------------------------------------------------------
\* Text helpers (Python str operations used by the code)
\* ------------------------------------------------------------------------

LowerChars == <<"a","b","c","d","e","f","g","h","i","j","k","l","m",
                "n","o","p","q","r","s","t","u","v","w","x","y","z">>

UpperChars == <<"A","B","C","D","E","F","G","H","I","J","K","L","M",
                "N","O","P","Q","R","S","T","U","V","W","X","Y","Z">>

\* str.upper() on one character
UpperChar(c) ==
    IF \E i \in 1..Len(LowerChars) : LowerChars[i] = c
    THEN UpperChars[CHOOSE i \in 1..Len(LowerChars) : LowerChars[i] = c]
    ELSE c

\* str.upper()
Upper(s) == [i \in 1..Len(s) |-> UpperChar(s[i])]

\* str.lower() on one character
LowerChar(c) ==
    IF \E i \in 1..Len(UpperChars) : UpperChars[i] = c
    THEN LowerChars[CHOOSE i \in 1..Len(UpperChars) : UpperChars[i] = c]
    ELSE c

\* str.lower()
Lower(s) == [i \in 1..Len(s) |-> LowerChar(s[i])]

RECURSIVE LStrip(_)
LStrip(s) == IF s # <<>> /\ s[1] = " " THEN LStrip(Tail(s)) ELSE s

RECURSIVE RStrip(_)
RStrip(s) ==
    IF s # <<>> /\ s[Len(s)] = " " THEN RStrip(SubSeq(s, 1, Len(s) - 1)) ELSE s

\* str.strip() for blanks
Strip(s) == RStrip(LStrip(s))

RECURSIVE SplitSpace(_)
\* shlex.split of a line without quotes or escapes: the runs of non-blanks
SplitSpace(s) ==
    LET t == LStrip(s)
    IN  IF t = <<>> THEN <<>>
        ELSE LET k == CHOOSE i \in 1..(Len(t) + 1) :
                          /\ i = Len(t) + 1 \/ t[i] = " "
                          /\ \A j \in 1..(i - 1) : t[j] # " "
             IN  <<SubSeq(t, 1, k - 1)>> \o SplitSpace(SubSeq(t, k, Len(t)))

DecDigits == <<"0","1","2","3","4","5","6","7","8","9">>

IsDecChar(c) == \E i \in 1..10 : DecDigits[i] = c

RECURSIVE DecVal(_)
DecVal(part) ==
    IF Len(part) = 0 THEN 0
    ELSE 10 * DecVal(SubSeq(part, 1, Len(part) - 1))
         + (CHOOSE i \in 1..10 : DecDigits[i] = part[Len(part)]) - 1

\* _to_int (lines 233-237) on a token: int(value), or the default on ValueError
to_int(value, default) ==
    LET signed == value # <<>> /\ value[1] \in {"-", "+"}
        body == IF signed THEN Tail(value) ELSE value
    IN  IF Len(body) > 0 /\ \A i \in 1..Len(body) : IsDecChar(body[i])
        THEN IF signed /\ value[1] = "-" THEN 0 - DecVal(body) ELSE DecVal(body)
        ELSE default

\* str.startswith(prefix)
StartsWith(s, prefix) ==
    /\ Len(prefix) <= Len(s)
    /\ \A i \in 1..Len(prefix) : s[i] = prefix[i]

\* `needle in s` for str
Contains(s, needle) ==
    \E k \in 0..(Len(s) - Len(needle)) :
        \A i \in 1..Len(needle) : s[k + i] = needle[i]

\* str.count(":")
CountColons(s) == Cardinality({i \in 1..Len(s) : s[i] = ":"})

RECURSIVE SplitColon(_)
\* str.split(":")
SplitColon(s) ==
    IF \A i \in 1..Len(s) : s[i] # ":"
    THEN <<s>>
    ELSE LET k == CHOOSE i \in 1..Len(s) :
                      s[i] = ":" /\ \A j \in 1..(i - 1) : s[j] # ":"
         IN  <<SubSeq(s, 1, k - 1)>> \o SplitColon(SubSeq(s, k + 1, Len(s)))

HexDigits == <<"0","1","2","3","4","5","6","7","8","9","A","B","C","D","E","F">>

IsHexChar(c) == \E i \in 1..16 : HexDigits[i] = UpperChar(c)

HexCharVal(c) == (CHOOSE i \in 1..16 : HexDigits[i] = UpperChar(c)) - 1

\* int(part, 16) is defined (no ValueError) for a non-empty run of hex digits;
\* the addresses this is applied to carry no sign, blank or 0x prefix
IsHex(part) == Len(part) > 0 /\ \A i \in 1..Len(part) : IsHexChar(part[i])

RECURSIVE HexVal(_)
\* int(part, 16)
HexVal(part) ==
    IF Len(part) = 0 THEN 0
    ELSE 16 * HexVal(SubSeq(part, 1, Len(part) - 1)) + HexCharVal(part[Len(part)])

Max(a, b) == IF a >= b THEN a ELSE b

Min(a, b) == IF a <= b THEN a ELSE b

RECURSIVE SumSeq(_)
SumSeq(s) == IF Len(s) = 0 THEN 0 ELSE s[1] + SumSeq(Tail(s))

\* ------------------------------------------------------------------------
\* Model registry
\* ------------------------------------------------------------------------

\* NAME, CCT TEMP MIN, CCT TEMP MAX, CCT-ONLY, INFINITY MODE
MASTER_LIGHT_SPECS == <<
    << <<"A","p","o","l","l","o">>, 5600, 5600, TRUE, 0 >>,
    << <<"B","H","-","3","0","S"," ","R","G","B">>, 2500, 10000, FALSE, 1 >>,
    << <<"C","B","6","0"," ","R","G","B">>, 2500, 6500, FALSE, 1 >>,
    << <<"C","L","1","2","4">>, 2500, 10000, FALSE, 2 >>,
    << <<"G","L","1">>, 2900, 7000, TRUE, 0 >>,
    << <<"G","L","1","C">>, 2900, 7000, FALSE, 1 >>,
    << <<"H","B","8","0","C">>, 2500, 7500, FALSE, 1 >>,
    << <<"M","S","6","0","B">>, 2700, 6500, TRUE, 1 >>,
    << <<"N","L","1","4","0">>, 3200, 5600, TRUE, 0 >>,
    << <<"R","G","B"," ","C","8","0">>, 2500, 10000, FALSE, 1 >>,
    << <<"R","G","B"," ","C","B","6","0">>, 2500, 10000, FALSE, 1 >>,
    << <<"R","G","B","1">>, 3200, 5600, FALSE, 1 >>,
    << <<"R","G","B","1","0","0","0">>, 2500, 10000, FALSE, 1 >>,
    << <<"R","G","B","1","2","0","0">>, 2500, 10000, FALSE, 1 >>,
    << <<"R","G","B","1","4","0">>, 2500, 10000, FALSE, 1 >>,
    << <<"R","G","B","1","6","8">>, 2500, 8500, FALSE, 2 >>,
    << <<"R","G","B","1","7","6">>, 3200, 5600, FALSE, 0 >>,
    << <<"R","G","B","1","7","6"," ","A","1">>, 2500, 10000, FALSE, 0 >>,
    << <<"R","G","B","1","8">>, 3200, 5600, FALSE, 0 >>,
    << <<"R","G","B","1","9","0">>, 3200, 5600, FALSE, 0 >>,
    << <<"R","G","B","4","5","0">>, 3200, 5600, FALSE, 0 >>,
    << <<"R","G","B","4","8","0">>, 3200, 5600, FALSE, 0 >>,
    << <<"R","G","B","5","1","2">>, 2500, 10000, FALSE, 1 >>,
    << <<"R","G","B","5","3","0">>, 3200, 5600, FALSE, 0 >>,
    << <<"R","G","B","5","3","0","P","R","O">>, 3200, 5600, FALSE, 0 >>,
    << <<"R","G","B","6","5","0">>, 3200, 5600, FALSE, 0 >>,
    << <<"R","G","B","6","6","0">>, 3200, 5600, FALSE, 0 >>,
    << <<"R","G","B","6","6","0","P","R","O">>, 3200, 5600, FALSE, 0 >>,
    << <<"R","G","B","8","0","0">>, 2500, 10000, FALSE, 1 >>,
    << <<"R","G","B","9","6","0">>, 3200, 5600, FALSE, 0 >>,
    << <<"R","G","B","-","P","2","0","0">>, 3200, 5600, FALSE, 0 >>,
    << <<"R","G","B","-","P","2","8","0">>, 3200, 5600, FALSE, 0 >>,
    << <<"S","L","7","0">>, 3200, 8500, FALSE, 0 >>,
    << <<"S","L","8","0">>, 3200, 8500, FALSE, 0 >>,
    << <<"S","L","9","0">>, 2500, 10000, FALSE, 1 >>,
    << <<"S","L","9","0"," ","P","r","o">>, 2500, 10000, FALSE, 1 >>,
    << <<"S","N","L","1","3","2","0">>, 3200, 5600, TRUE, 0 >>,
    << <<"S","N","L","1","9","2","0">>, 3200, 5600, TRUE, 0 >>,
    << <<"S","N","L","4","8","0">>, 3200, 5600, TRUE, 0 >>,
    << <<"S","N","L","5","3","0">>, 3200, 5600, TRUE, 0 >>,
    << <<"S","N","L","6","6","0">>, 3200, 5600, TRUE, 0 >>,
    << <<"S","N","L","9","6","0">>, 3200, 5600, TRUE, 0 >>,
    << <<"S","R","P","1","6">>, 3200, 5600, TRUE, 0 >>,
    << <<"S","R","P","1","8">>, 3200, 5600, TRUE, 0 >>,
    << <<"T","L","6","0">>, 2500, 10000, FALSE, 1 >>,
    << <<"W","R","P","1","8">>, 3200, 5600, TRUE, 0 >>,
    << <<"Z","K","-","R","Y">>, 5600, 5600, FALSE, 0 >>,
    << <<"Z","R","P","1","6">>, 3200, 5600, TRUE, 0 >>
>>

\* Index of the entry found by the reversed scan, 0 for None
FindLightSpecsIndex(light_name) ==
    LET hits == {i \in 1..Len(MASTER_LIGHT_SPECS) :
                    Contains(light_name, MASTER_LIGHT_SPECS[i][1])}
    IN  IF hits = {} THEN 0
        ELSE CHOOSE i \in hits : \A j \in hits : j <= i

\* ------------------------------------------------------------------------
\* Framing and encoder
\* ------------------------------------------------------------------------

\* rc = ok, or the exception raised
Ok(v) == [ok |-> TRUE, err |-> "", val |-> v]

Raise(e) == [ok |-> FALSE, err |-> e, val |-> <<>>]

split_mac_address(mac_address) ==
    LET parts == SplitColon(mac_address)
    IN  IF Len(parts) # 6 THEN Raise("ValueError")
        ELSE IF \E i \in 1..6 : ~IsHex(parts[i]) THEN Raise("ValueError")
        ELSE Ok([i \in 1..6 |-> HexVal(parts[i])])

RECURSIVE SplitComma(_)
\* str.split(",")
SplitComma(s) ==
    IF \A i \in 1..Len(s) : s[i] # ","
    THEN <<s>>
    ELSE LET k == CHOOSE i \in 1..Len(s) :
                      s[i] = "," /\ \A j \in 1..(i - 1) : s[j] # ","
         IN  <<SubSeq(s, 1, k - 1)>> \o SplitComma(SubSeq(s, k + 1, Len(s)))

\* int(part, 16) of a two-character octet raises no ValueError: two hex
\* digits, or one hex digit with a sign before it or a blank beside it
OctetParses(part) ==
    \/ IsHexChar(part[1]) /\ IsHexChar(part[2])
    \/ part[1] \in {"+", "-", " "} /\ IsHexChar(part[2])
    \/ IsHexChar(part[1]) /\ part[2] = " "

\* lines 204-216; normalize_address is strip().upper() (line 201)
validate_mac_address(mac_address) ==
    LET normalized == Upper(Strip(mac_address))
        parts == SplitColon(normalized)
    IN  IF Len(parts) # 6 THEN Raise("ConfigError")
        ELSE IF \E i \in 1..6 : Len(parts[i]) # 2 THEN Raise("ConfigError")
        ELSE IF \E i \in 1..6 : ~OctetParses(parts[i]) THEN Raise("ConfigError")
        ELSE Ok(normalized)

\* token.split(":", 1)[1]
AfterFirstColon(token) ==
    LET k == CHOOSE i \in 1..Len(token) :
                 token[i] = ":" /\ \A j \in 1..(i - 1) : token[j] # ":"
    IN  SubSeq(token, k + 1, Len(token))

GroupPrefix == <<"g","r","o","u","p",":">>

RECURSIVE ResolveTokens(_, _, _)
\* the loop of lines 374-381 over the remaining tokens
ResolveTokens(tokens, groups_cfg, acc) ==
    IF tokens = <<>> THEN Ok(<<acc>>)
    ELSE LET token == Head(tokens)
         IN  IF StartsWith(Lower(token), GroupPrefix)
             THEN LET group_name == AfterFirstColon(token)
                  IN  IF group_name \notin DOMAIN groups_cfg
                      THEN Raise("ConfigError")
                      ELSE ResolveTokens(Tail(tokens), groups_cfg,
                                         acc \cup groups_cfg[group_name])
             ELSE LET mac == validate_mac_address(token)
                  IN  IF ~mac.ok THEN mac
                      ELSE ResolveTokens(Tail(tokens), groups_cfg, acc \cup {mac.val})

\* [x.strip() for x in selector.split(",") if x.strip()] (line 374)
SelectorTokens(sel) ==
    LET items == SplitComma(sel)
        kept == SelectSeq(items, LAMBDA x : Strip(x) # <<>>)
    IN  [i \in 1..Len(kept) |-> Strip(kept[i])]

\* lines 367-382; None is <<>> and a set S is <<S>>
selector_to_addresses(sel, groups_cfg) ==
    IF Strip(sel) = <<>> \/ Upper(sel) \in {<<"A","L","L">>, <<"*">>}
    THEN Ok(<<>>)
    ELSE ResolveTokens(SelectorTokens(sel), groups_cfg, {})

\* ------------------------------------------------------------------------
\* Command line and configuration overlay: build_parser, _arg_present,
\* apply_defaults_from_config, apply_preset_from_config.  A value of the
\* command line or of the configuration is [t |-> its Python type, v |-> it].
\* ------------------------------------------------------------------------

\* The long option strings of build_parser (lines 1907-2061), in order
OptionStrings ==
    <<<<"-","-","h","e","l","p">>,
      <<"-","-","v","e","r","s","i","o","n">>,
      <<"-","-","c","o","n","f","i","g">>,
      <<"-","-","p","r","e","s","e","t">>,
      <<"-","-","l","i","s","t">>,
      <<"-","-","l","i","g","h","t">>,
      <<"-","-","s","k","i","p","-","d","i","s","c","o","v","e","r","y">>,
      <<"-","-","s","t","a","t","u","s">>,
      <<"-","-","s","e","r","v","e">>,
      <<"-","-","o","n">>,
      <<"-","-","o","f","f">>,
      <<"-","-","m","o","d","e">>,
      <<"-","-","t","e","m","p">>,
      <<"-","-","h","u","e">>,
      <<"-","-","s","a","t">>,
      <<"-","-","b","r","i">>,
      <<"-","-","g","m">>,
      <<"-","-","s","c","e","n","e">>,
      <<"-","-","s","c","e","n","e","-","b","r","i","g","h","t","-","m","i","n">>,
      <<"-","-","s","c","e","n","e","-","b","r","i","g","h","t","-","m","a","x">>,
      <<"-","-","s","c","e","n","e","-","t","e","m","p","-","m","i","n">>,
      <<"-","-","s","c","e","n","e","-","t","e","m","p","-","m","a","x">>,
      <<"-","-","s","c","e","n","e","-","h","u","e","-","m","i","n">>,
      <<"-","-","s","c","e","n","e","-","h","u","e","-","m","a","x">>,
      <<"-","-","s","c","e","n","e","-","s","p","e","e","d">>,
      <<"-","-","s","c","e","n","e","-","s","p","a","r","k","s">>,
      <<"-","-","s","c","e","n","e","-","s","p","e","c","i","a","l">>,
      <<"-","-","s","c","a","n","-","t","i","m","e","o","u","t">>,
      <<"-","-","s","c","a","n","-","a","t","t","e","m","p","t","s">>,
      <<"-","-","r","e","s","o","l","v","e","-","t","i","m","e","o","u","t">>,
      <<"-","-","s","t","a","t","u","s","-","t","i","m","e","o","u","t">>,
      <<"-","-","c","o","n","n","e","c","t","-","t","i","m","e","o","u","t">>,
      <<"-","-","c","o","n","n","e","c","t","-","r","e","t","r","i","e","s">>,
      <<"-","-","w","r","i","t","e","-","r","e","t","r","i","e","s">>,
      <<"-","-","p","a","s","s","e","s">>,
      <<"-","-","p","a","r","a","l","l","e","l">>,
      <<"-","-","s","e","t","t","l","e","-","m","s">>,
      <<"-","-","n","o","-","r","e","s","p","o","n","s","e">>,
      <<"-","-","e","n","a","b","l","e","-","s","t","a","t","u","s","-","q","u","e","r","y">>,
      <<"-","-","e","n","a","b","l","e","-","e","x","t","e","n","d","e","d","-","s","c","e","n","e">>,
      <<"-","-","d","e","b","u","g">>>>

\* The attributes of the parsed namespace that the overlay model follows, with
\* their argparse defaults (lines 1922-1925, 1943-1944, 1950-1953, 2019)
ParserDefaults ==
    [a \in {<<"b","r","i">>, <<"s","c","a","n","_","a","t","t","e","m","p","t","s">>, <<"o","n">>, <<"o","f","f">>, <<"l","i","g","h","t">>, <<"p","r","e","s","e","t">>} |->
        IF a = <<"b","r","i">> THEN [t |-> "int", v |-> 100]
        ELSE IF a = <<"s","c","a","n","_","a","t","t","e","m","p","t","s">> THEN [t |-> "int", v |-> 3]
        ELSE IF a \in {<<"o","n">>, <<"o","f","f">>} THEN [t |-> "bool", v |-> FALSE]
        ELSE [t |-> "str", v |-> <<>>]]

\* str.replace(old, new) for single characters
Replace(s, old, new) == [i \in 1..Len(s) |-> IF s[i] = old THEN new ELSE s[i]]

RECURSIVE parse_args(_, _)
\* parser.parse_args() (line 2079) on the tokens av, for the options the
\* overlay model follows: a token is an option string, a prefix of exactly
\* one option string (the parser is built without allow_abbrev=False, line
\* 1908), or either followed by =value; store_true options take no value.
\* Returns the attributes set from the command line, added to acc.
parse_args(av, acc) ==
    IF av = <<>> THEN acc
    ELSE LET tok == Head(av)
             eq == {i \in 1..Len(tok) : tok[i] = "="}
             k == IF eq = {} THEN Len(tok) + 1
                  ELSE CHOOSE i \in eq : \A j \in eq : i <= j
             typed == SubSeq(tok, 1, k - 1)
             exact == {i \in 1..Len(OptionStrings) : OptionStrings[i] = typed}
             match == IF exact # {} THEN exact
                      ELSE {i \in 1..Len(OptionStrings) :
                                StartsWith(OptionStrings[i], typed)}
             option == OptionStrings[CHOOSE i \in match : TRUE]
             dest == Replace(SubSeq(option, 3, Len(option)), "-", "_")
             kind == ParserDefaults[dest].t
             text == IF eq # {} THEN SubSeq(tok, k + 1, Len(tok)) ELSE av[2]
             value == IF kind = "bool" THEN [t |-> "bool", v |-> TRUE]
                      ELSE IF kind = "int" THEN [t |-> "int", v |-> to_int(text, 0)]
                      ELSE [t |-> "str", v |-> text]
             rest == IF kind = "bool" \/ eq # {} THEN Tail(av) ELSE Tail(Tail(av))
         IN  parse_args(rest, [a \in DOMAIN acc \cup {dest} |->
                                  IF a = dest THEN value ELSE acc[a]])

\* _arg_present (lines 247-252)
arg_present(av, arg_name) ==
    LET flag == <<"-", "-">> \o Replace(arg_name, "_", "-")
    IN  \E i \in 1..Len(av) :
            av[i] = flag \/ StartsWith(av[i], flag \o <<"=">>)

\* _to_bool (lines 219-230)
to_bool(value, default) ==
    IF value.t = "bool" THEN value.v
    ELSE IF value.t = "int" THEN value.v # 0
    ELSE LET lower == Lower(Strip(value.v))
         IN  IF lower \in {<<"1">>, <<"t","r","u","e">>, <<"y","e","s">>, <<"o","n">>} THEN TRUE
             ELSE IF lower \in {<<"0">>, <<"f","a","l","s","e">>, <<"n","o">>, <<"o","f","f">>} THEN FALSE
             ELSE default

\* the isinstance chain of lines 400-408 and 495-502
Coerced(current, value) ==
    IF current.t = "bool" THEN [t |-> "bool", v |-> to_bool(value, current.v)]
    ELSE IF current.t = "int"
    THEN [t |-> "int",
          v |-> IF value.t = "int" THEN value.v
                ELSE IF value.t = "bool" THEN (IF value.v THEN 1 ELSE 0)
                ELSE to_int(Strip(value.v), current.v)]
    ELSE value

RECURSIVE apply_defaults_from_config(_, _, _)
\* lines 385-408: a is the namespace, items the remaining (key, value) pairs
\* of config_data["defaults"]
apply_defaults_from_config(a, items, av) ==
    IF items = <<>> THEN a
    ELSE LET attr == Replace(items[1][1], "-", "_")
             value == items[1][2]
         IN  IF attr \notin DOMAIN a \/ arg_present(av, attr)
             THEN apply_defaults_from_config(a, Tail(items), av)
             ELSE apply_defaults_from_config(
                      [a EXCEPT ![attr] = Coerced(a[attr], value)], Tail(items), av)

\* alias_map (lines 445-461)
alias_map ==
    [k \in {<<"b","r","i","g","h","t","n","e","s","s">>,
            <<"s","a","t","u","r","a","t","i","o","n">>,
            <<"t","e","m","p","e","r","a","t","u","r","e">>,
            <<"e","f","f","e","c","t">>,
            <<"p","o","w","e","r">>,
            <<"b","r","i","g","h","t","_","m","i","n">>,
            <<"b","r","i","g","h","t","_","m","a","x">>,
            <<"t","e","m","p","_","m","i","n">>,
            <<"t","e","m","p","_","m","a","x">>,
            <<"h","u","e","_","m","i","n">>,
            <<"h","u","e","_","m","a","x">>,
            <<"s","p","e","e","d">>,
            <<"s","p","a","r","k","s">>,
            <<"s","p","e","c","i","a","l","_","o","p","t","i","o","n","s">>,
            <<"s","p","e","c","i","a","l","o","p","t","i","o","n","s">>} |->
        CASE k = <<"b","r","i","g","h","t","n","e","s","s">> -> <<"b","r","i">>
          [] k = <<"s","a","t","u","r","a","t","i","o","n">> -> <<"s","a","t">>
          [] k = <<"t","e","m","p","e","r","a","t","u","r","e">> -> <<"t","e","m","p">>
          [] k = <<"e","f","f","e","c","t">> -> <<"s","c","e","n","e">>
          [] k = <<"p","o","w","e","r">> -> <<"o","n">>
          [] k = <<"b","r","i","g","h","t","_","m","i","n">> -> <<"s","c","e","n","e","_","b","r","i","g","h","t","_","m","i","n">>
          [] k = <<"b","r","i","g","h","t","_","m","a","x">> -> <<"s","c","e","n","e","_","b","r","i","g","h","t","_","m","a","x">>
          [] k = <<"t","e","m","p","_","m","i","n">> -> <<"s","c","e","n","e","_","t","e","m","p","_","m","i","n">>
          [] k = <<"t","e","m","p","_","m","a","x">> -> <<"s","c","e","n","e","_","t","e","m","p","_","m","a","x">>
          [] k = <<"h","u","e","_","m","i","n">> -> <<"s","c","e","n","e","_","h","u","e","_","m","i","n">>
          [] k = <<"h","u","e","_","m","a","x">> -> <<"s","c","e","n","e","_","h","u","e","_","m","a","x">>
          [] k = <<"s","p","e","e","d">> -> <<"s","c","e","n","e","_","s","p","e","e","d">>
          [] k = <<"s","p","a","r","k","s">> -> <<"s","c","e","n","e","_","s","p","a","r","k","s">>
          [] k = <<"s","p","e","c","i","a","l","_","o","p","t","i","o","n","s">> -> <<"s","c","e","n","e","_","s","p","e","c","i","a","l">>
          [] k = <<"s","p","e","c","i","a","l","o","p","t","i","o","n","s">> -> <<"s","c","e","n","e","_","s","p","e","c","i","a","l">>]

RECURSIVE PresetLoop(_, _, _)
\* the loop of lines 463-502 over the remaining (key, value) pairs
PresetLoop(a, items, av) ==
    IF items = <<>> THEN a
    ELSE LET raw_key == items[1][1]
             value == items[1][2]
             key == Replace(IF raw_key \in DOMAIN alias_map THEN alias_map[raw_key]
                            ELSE raw_key, "-", "_")
             rest == Tail(items)
         IN  IF key = <<"l","i","g","h","t","s">>
             THEN IF arg_present(av, <<"l","i","g","h","t">>) THEN PresetLoop(a, rest, av)
                  ELSE PresetLoop([a EXCEPT ![<<"l","i","g","h","t">>] = [t |-> "str", v |-> value.v]],
                                  rest, av)
             ELSE IF key = <<"o","n">>
             THEN IF arg_present(av, <<"o","n">>) \/ arg_present(av, <<"o","f","f">>)
                  THEN PresetLoop(a, rest, av)
                  ELSE LET power == Upper(Strip(value.v))
                           on == IF value.t = "str" THEN power \in {<<"O","N">>, <<"1">>, <<"T","R","U","E">>}
                                 ELSE to_bool(value, FALSE)
                           off == IF value.t = "str" THEN power \in {<<"O","F","F">>, <<"0">>, <<"F","A","L","S","E">>}
                                  ELSE ~on
                       IN  PresetLoop([a EXCEPT ![<<"o","n">>] = [t |-> "bool", v |-> on],
                                                ![<<"o","f","f">>] = [t |-> "bool", v |-> off]],
                                      rest, av)
             ELSE IF key \notin DOMAIN a \/ arg_present(av, key)
             THEN PresetLoop(a, rest, av)
             ELSE PresetLoop([a EXCEPT ![key] = Coerced(a[key], value)], rest, av)

\* lines 411-502.  presets maps a preset name to [per_light |-> the addresses
\* of its per_light block (at most one here, so that sorting and joining
\* them is the address itself), items |-> its other (key, value) pairs].
apply_preset_from_config(a, presets, av) ==
    IF a[<<"p","r","e","s","e","t">>].v = <<>> THEN Ok(a)
    ELSE IF a[<<"p","r","e","s","e","t">>].v \notin DOMAIN presets THEN Raise("ConfigError")
    ELSE LET preset == presets[a[<<"p","r","e","s","e","t">>].v]
             normalized == [i \in 1..Len(preset.per_light) |->
                               Upper(Strip(preset.per_light[i]))]
             b == IF ~arg_present(av, <<"l","i","g","h","t">>) /\ normalized # <<>>
                  THEN [a EXCEPT ![<<"l","i","g","h","t">>] = [t |-> "str", v |-> normalized[1]]]
                  ELSE a
         IN  Ok(PresetLoop(b, preset.items, av))

\* Mutant of tag_checksum: negative elements are left out of the sum
tag_checksum_skips_negative(payload) ==
    LET checksum == SumSeq([i \in 1..Len(payload) |->
                        IF payload[i] < 0 THEN 0 ELSE payload[i]])
    IN  Append(payload, checksum % 256)

tag_checksum(payload) ==
    LET checksum == SumSeq([i \in 1..Len(payload) |->
                        IF payload[i] < 0 THEN payload[i] + 256 ELSE payload[i]])
    IN  Append(payload, checksum % 256)

\* Mutant of clamp: only the upper limit is applied
clamp_high_only(value, low, high) == Min(high, value)

clamp(value, low, high) == Max(low, Min(high, value))

\* Mutant of parse_temp_value: the quotient is truncated instead of rounded
parse_temp_truncates(temp_raw) ==
    IF temp_raw >= 1000 THEN temp_raw \div 100 ELSE temp_raw

\* int(round(temp / 100.0)): Python rounds halves to the even neighbour
parse_temp_value(temp_raw) ==
    IF temp_raw >= 1000
    THEN LET q == temp_raw \div 100
             r == temp_raw % 100
         IN  IF r < 50 THEN q
             ELSE IF r > 50 THEN q + 1
             ELSE IF q % 2 = 0 THEN q ELSE q + 1
    ELSE temp_raw

\* Mutant of convert_fx_index: the effect index is not remapped
convert_fx_keeps_index(infinity_mode, effect_num) == effect_num

convert_fx_index(infinity_mode, effect_num) ==
    IF infinity_mode > 0
    THEN IF effect_num > 20
         THEN CASE effect_num = 21 -> 10
                [] effect_num = 22 -> 8
                [] effect_num = 23 -> 12
                [] effect_num = 24 -> 12
                [] effect_num = 25 -> 17
                [] effect_num = 26 -> 11
                [] effect_num = 27 -> 1
                [] effect_num = 28 -> 2
                [] effect_num = 29 -> 15
                [] OTHER -> effect_num
         ELSE effect_num
    ELSE IF effect_num < 20
         THEN CASE effect_num = 10 -> 1
                [] effect_num = 16 -> 4
                [] effect_num = 17 -> 5
                [] effect_num = 11 -> 6
                [] effect_num = 1 -> 7
                [] effect_num = 2 -> 8
                [] effect_num = 15 -> 9
                [] OTHER -> 10
         ELSE effect_num - 20

\* (hue & 0xFF, (hue & 0xFF00) >> 8) of the clamped hue
split_hue(hue_value) ==
    LET hue == clamp(hue_value, 0, 360)
    IN  <<hue % 256, (hue \div 256) % 256>>

\* Mutant of model_supports_extended_scene: the override is ignored
extended_scene_ignores_override(light) ==
    light.infinity_mode \in {1, 2} /\ ~light.cct_only

model_supports_extended_scene(light) ==
    IF light.supports_extended_scene # "None"
    THEN light.supports_extended_scene = "True"
    ELSE light.infinity_mode \in {1, 2} /\ ~light.cct_only

\* The per-effect payloads of the extended scene form
\* Mutant of calculate_extended_scene_bytestring: the length byte stays 2
extended_scene_fixed_length(effect, args) ==
    <<120, 136, 2, effect, clamp(args.bri, 0, 100), clamp(args.scene_speed, 1, 10)>>

calculate_extended_scene_bytestring(effect, args) ==
    LET brightness == clamp(args.bri, 0, 100)
        bright_min == clamp(args.scene_bright_min, 0, 100)
        bright_max == clamp(args.scene_bright_max, 0, 100)
        temp == clamp(parse_temp_value(args.temp), 25, 100)
        temp_min == clamp(parse_temp_value(args.scene_temp_min), 25, 100)
        temp_max == clamp(parse_temp_value(args.scene_temp_max), 25, 100)
        gm == clamp(args.gm + 50, 0, 100)
        hue == split_hue(args.hue)
        hue_min == split_hue(args.scene_hue_min)
        hue_max == split_hue(args.scene_hue_max)
        sat == clamp(args.sat, 0, 100)
        speed == clamp(args.scene_speed, 1, 10)
        sparks == clamp(args.scene_sparks, 0, 10)
        special == clamp(args.scene_special, 0, 10)
        payload ==
            CASE effect = 1 -> <<effect, brightness, temp, speed>>
              [] effect \in {2, 3, 6, 8} -> <<effect, brightness, temp, gm, speed>>
              [] effect = 4 -> <<effect, brightness, temp, gm, speed, sparks>>
              [] effect = 5 -> <<effect, bright_min, bright_max, temp, gm, speed>>
              [] effect \in {7, 9} -> <<effect, brightness, hue[1], hue[2], sat, speed>>
              [] effect = 10 -> <<effect, brightness, special, speed>>
              [] effect = 11 ->
                     <<effect, bright_min, bright_max, temp, gm, speed, sparks>>
              [] effect = 12 ->
                     <<effect, brightness, hue_min[1], hue_min[2],
                       hue_max[1], hue_max[2], speed>>
              [] effect = 13 -> <<effect, brightness, temp_min, temp_max, speed>>
              [] effect = 14 -> <<14, 0, bright_min, bright_max, 0, 0, temp, speed>>
              [] effect = 15 ->
                     <<14, 1, bright_min, bright_max, hue[1], hue[2], 0, speed>>
              [] effect = 16 -> <<15, bright_min, bright_max, temp, gm, speed>>
              [] effect = 17 -> <<16, brightness, special, speed, sparks>>
              [] effect = 18 -> <<17, brightness, special, speed>>
              [] effect = 21 -> <<effect, brightness, 2, 5>>
              [] effect = 22 -> <<effect, brightness, 75, 50, 5>>
              [] effect = 23 -> <<effect, brightness, 0, 0, 55, 0, 10>>
              [] effect = 24 -> <<effect, brightness, 49, 0, 20, 1, 8>>
              [] effect = 25 -> <<effect, brightness, 1, 10>>
              [] effect = 26 -> <<effect, 2, brightness, 32, 50, 10, 4>>
              [] effect = 27 -> <<effect, brightness, 75, 10>>
              [] effect = 28 -> <<effect, brightness, 75, 50, 10>>
              [] effect = 29 -> <<effect, 2, brightness, 75, 50, 10>>
              [] OTHER -> <<effect, brightness>>
    IN  <<120, 136, Len(payload)>> \o payload

calculate_bytestring(color_mode, args) ==
    LET mode == Upper(color_mode)
    IN  IF mode = <<"C","C","T">>
        THEN Ok(<<120, 135, 2, clamp(args.bri, 0, 100),
                  clamp(parse_temp_value(args.temp), 25, 100),
                  clamp(args.gm + 50, 0, 100)>>)
        ELSE IF mode = <<"H","S","I">>
        THEN LET hue == clamp(args.hue, 0, 360)
             IN  Ok(<<120, 134, 4, hue % 256, (hue \div 256) % 256,
                      clamp(args.sat, 0, 100), clamp(args.bri, 0, 100)>>)
        ELSE IF mode \in {<<"A","N","M">>, <<"S","C","E","N","E">>}
        THEN LET effect == clamp(args.scene, 1, 29)
             IN  IF args.enable_extended_scene
                 THEN Ok(calculate_extended_scene_bytestring(effect, args))
                 ELSE Ok(<<120, 136, 2, effect, clamp(args.bri, 0, 100)>>)
        ELSE Raise("ValueError")

set_power_bytestring(power_on) == <<120, 129, 1, IF power_on THEN 1 ELSE 2>>

get_infinity_power_bytestring(power_on, light_mac_address) ==
    LET mac == split_mac_address(light_mac_address)
    IN  IF ~mac.ok THEN mac
        ELSE Ok(<<120, 141, 8>> \o mac.val \o <<129, IF power_on THEN 1 ELSE 0>>)

\* Mutant of cct_split_bytestrings: the temperature frame also carries GM
cct_split_with_gm(command) ==
    << <<120, 130, 1, command[4]>>, <<120, 131, 2, command[5], command[6]>> >>

cct_split_bytestrings(command) ==
    << <<120, 130, 1, command[4]>>, <<120, 131, 1, command[5]>> >>

\* Mutant of get_hw_mac_for_light: the address is preferred to the configured
\* hw_mac
get_hw_mac_prefers_address(light) ==
    IF CountColons(light.address) = 5 THEN Ok(light.address)
    ELSE IF light.hw_mac # <<>> THEN Ok(light.hw_mac)
    ELSE Raise("ValueError")

get_hw_mac_for_light(light) ==
    IF light.hw_mac # <<>> THEN Ok(light.hw_mac)
    ELSE IF CountColons(light.address) = 5 THEN Ok(light.address)
    ELSE Raise("ValueError")

\* One entry of a delivery plan: (payload, response, extra_delay in ms)
Frame(payload, response, delay_ms) ==
    [payload |-> payload, response |-> response, delay |-> delay_ms]

\* mode 129 on an Infinity fixture (lines 863-867)
InfinityPowerPlan(light, base_command, power_with_response) ==
    LET hw_mac == get_hw_mac_for_light(light)
    IN  IF ~hw_mac.ok THEN hw_mac
        ELSE LET p == get_infinity_power_bytestring(base_command[4] = 1, hw_mac.val)
             IN  IF ~p.ok THEN p
                 ELSE Ok(<<Frame(tag_checksum(p.val), power_with_response, 0)>>)

\* Mutant of CctPlan: the Classic branch sends the base command whole
CctPlanKeepsGm(light, base_command) ==
    IF light.cct_only
    THEN LET split_values == cct_split_bytestrings(base_command)
         IN  Ok(<<Frame(tag_checksum(split_values[1]), FALSE, 50),
                  Frame(tag_checksum(split_values[2]), FALSE, 0)>>)
    ELSE IF light.infinity_mode = 1
    THEN LET hw_mac == get_hw_mac_for_light(light)
         IN  IF ~hw_mac.ok THEN hw_mac
             ELSE LET mac == split_mac_address(hw_mac.val)
                  IN  IF ~mac.ok THEN mac
                      ELSE Ok(<<Frame(tag_checksum(
                                   <<120, 144, 11>> \o mac.val \o
                                   <<135, base_command[4], base_command[5],
                                     base_command[6], 4>>), FALSE, 0)>>)
    ELSE IF light.infinity_mode = 2
    THEN Ok(<<Frame(tag_checksum([base_command EXCEPT ![3] = 3]), FALSE, 0)>>)
    ELSE Ok(<<Frame(tag_checksum(base_command), FALSE, 0)>>)

\* mode 135 (lines 871-892)
CctPlan(light, base_command) ==
    IF light.cct_only
    THEN LET split_values == cct_split_bytestrings(base_command)
         IN  Ok(<<Frame(tag_checksum(split_values[1]), FALSE, 50),
                  Frame(tag_checksum(split_values[2]), FALSE, 0)>>)
    ELSE IF light.infinity_mode = 1
    THEN LET hw_mac == get_hw_mac_for_light(light)
         IN  IF ~hw_mac.ok THEN hw_mac
             ELSE LET mac == split_mac_address(hw_mac.val)
                  IN  IF ~mac.ok THEN mac
                      ELSE Ok(<<Frame(tag_checksum(
                                   <<120, 144, 11>> \o mac.val \o
                                   <<135, base_command[4], base_command[5],
                                     base_command[6], 4>>), FALSE, 0)>>)
    ELSE IF light.infinity_mode = 2
    THEN Ok(<<Frame(tag_checksum([base_command EXCEPT ![3] = 3]), FALSE, 0)>>)
    ELSE Ok(<<Frame(tag_checksum(SubSeq(base_command, 1, Min(5, Len(base_command)))),
                    FALSE, 0)>>)

\* mode 134 (lines 894-909)
HsiPlan(light, base_command) ==
    IF light.infinity_mode = 1
    THEN LET hw_mac == get_hw_mac_for_light(light)
         IN  IF ~hw_mac.ok THEN hw_mac
             ELSE LET mac == split_mac_address(hw_mac.val)
                  IN  IF ~mac.ok THEN mac
                      ELSE Ok(<<Frame(tag_checksum(
                                   <<120, 143, 11>> \o mac.val \o
                                   <<134, base_command[4], base_command[5],
                                     base_command[6], base_command[7]>>), FALSE, 0)>>)
    ELSE Ok(<<Frame(tag_checksum(base_command), FALSE, 0)>>)

\* Mutant of ScenePlan: the Classic branch keeps the order effect, brightness
ScenePlanKeepsOrder(light, base_command) ==
    IF Len(base_command) > 5 /\ ~model_supports_extended_scene(light)
    THEN Raise("UnsupportedModeError")
    ELSE IF light.infinity_mode = 1
    THEN LET hw_mac == get_hw_mac_for_light(light)
         IN  IF ~hw_mac.ok THEN hw_mac
             ELSE LET mac == split_mac_address(hw_mac.val)
                      power_off == get_infinity_power_bytestring(FALSE, hw_mac.val)
                      power_on_packet == get_infinity_power_bytestring(TRUE, hw_mac.val)
                  IN  IF ~mac.ok THEN mac
                      ELSE Ok(<<Frame(tag_checksum(power_off.val), FALSE, 50),
                                Frame(tag_checksum(power_on_packet.val), FALSE, 50),
                                Frame(tag_checksum(
                                   <<120, 145, 6 + (Len(base_command) - 2)>> \o mac.val \o
                                   <<139, convert_fx_index(1, base_command[4])>> \o
                                   SubSeq(base_command, 5, Len(base_command))), FALSE, 0)>>)
    ELSE IF light.infinity_mode = 2
    THEN Ok(<<Frame(tag_checksum([base_command EXCEPT ![2] = 139,
                                                      ![3] = Len(base_command) - 3]),
                    FALSE, 0)>>)
    ELSE LET payload == SubSeq(base_command, 1, 5)
         IN  Ok(<<Frame(tag_checksum([payload EXCEPT
                         ![4] = convert_fx_index(0, payload[4])]), FALSE, 0)>>)

\* mode 136 (lines 911-943)
ScenePlan(light, base_command) ==
    IF Len(base_command) > 5 /\ ~model_supports_extended_scene(light)
    THEN Raise("UnsupportedModeError")
    ELSE IF light.infinity_mode = 1
    THEN LET hw_mac == get_hw_mac_for_light(light)
         IN  IF ~hw_mac.ok THEN hw_mac
             ELSE LET mac == split_mac_address(hw_mac.val)
                      power_off == get_infinity_power_bytestring(FALSE, hw_mac.val)
                      power_on_packet == get_infinity_power_bytestring(TRUE, hw_mac.val)
                  IN  IF ~mac.ok THEN mac
                      ELSE Ok(<<Frame(tag_checksum(power_off.val), FALSE, 50),
                                Frame(tag_checksum(power_on_packet.val), FALSE, 50),
                                Frame(tag_checksum(
                                   <<120, 145, 6 + (Len(base_command) - 2)>> \o mac.val \o
                                   <<139, convert_fx_index(1, base_command[4])>> \o
                                   SubSeq(base_command, 5, Len(base_command))), FALSE, 0)>>)
    ELSE IF light.infinity_mode = 2
    THEN Ok(<<Frame(tag_checksum([base_command EXCEPT ![2] = 139,
                                                      ![3] = Len(base_command) - 3]),
                    FALSE, 0)>>)
    ELSE LET payload == SubSeq(base_command, 1, 5)
         IN  Ok(<<Frame(tag_checksum([payload EXCEPT ![4] = payload[5],
                         ![5] = convert_fx_index(0, payload[4])]), FALSE, 0)>>)

\* Mutant of CctOnlyRejects: no capability gate
CctOnlyNeverRejects(light, mode) == FALSE

\* The capability gate of line 859
CctOnlyRejects(light, mode) == light.cct_only /\ mode \in {134, 136}

build_payload_sequence(light, base_command, power_with_response) ==
    LET mode == base_command[2]
    IN  IF CctOnlyRejects(light, mode) THEN Raise("UnsupportedModeError")
        ELSE IF mode = 129
        THEN IF light.infinity_mode = 1
             THEN InfinityPowerPlan(light, base_command, power_with_response)
             ELSE Ok(<<Frame(tag_checksum(base_command), power_with_response, 0)>>)
        ELSE IF mode = 135 THEN CctPlan(light, base_command)
        ELSE IF mode = 134 THEN HsiPlan(light, base_command)
        ELSE IF mode = 136 THEN ScenePlan(light, base_command)
        ELSE Raise("ValueError")

\* Mutant of validate_base_command_for_light: the Kelvin bounds of the entry
\* are compared without being normalized to temp codes
validate_against_kelvin(light, base_command) ==
    LET mode == base_command[2]
        idx == FindLightSpecsIndex(light.name)
    IN  IF mode # 135 THEN Ok(<<>>)
        ELSE IF idx = 0 THEN Ok(<<>>)
        ELSE LET entry == MASTER_LIGHT_SPECS[idx]
                 temp == base_command[5]
             IN  IF entry[2] <= temp /\ temp <= entry[3] THEN Ok(<<>>)
                 ELSE Raise("UnsupportedModeError")

validate_base_command_for_light(light, base_command) ==
    LET mode == base_command[2]
        idx == FindLightSpecsIndex(light.name)
    IN  IF mode # 135 THEN Ok(<<>>)
        ELSE IF idx = 0 THEN Ok(<<>>)
        ELSE LET entry == MASTER_LIGHT_SPECS[idx]
                 a == clamp(parse_temp_value(entry[2]), 25, 100)
                 b == clamp(parse_temp_value(entry[3]), 25, 100)
                 min_temp == IF b < a THEN b ELSE a
                 max_temp == IF b < a THEN a ELSE b
                 temp == base_command[5]
             IN  IF min_temp <= temp /\ temp <= max_temp THEN Ok(<<>>)
                 ELSE Raise("UnsupportedModeError")

\* The try block of send_command_once: validation, then dialect branching
PlanFor(light, base_command, power_with_response) ==
    LET v == validate_base_command_for_light(light, base_command)
    IN  IF ~v.ok THEN v
        ELSE build_payload_sequence(light, base_command, power_with_response)

\* ------------------------------------------------------------------------
\* Bounds of the model
\* ------------------------------------------------------------------------

MaxPasses == 2

MaxConnectRetries == 1

MaxWriteRetries == 1

MaxParallel == 2

\* Transport links the environment may drop during one run
MaxDrops == 1

\* ------------------------------------------------------------------------
\* Fixtures and inputs
\* ------------------------------------------------------------------------

Lights == {"L1", "L2"}

\* LightInfo as discovery leaves it (lines 1007-1015): no hw_mac, no session,
\* no capability override.  L1 is an Infinity RGB panel, L2 a CCT-only panel.
DiscoveredLight(f) ==
    IF f = "L1"
    THEN [name |-> <<"S","L","9","0">>,
          address |-> <<"A","A",":","B","B",":","C","C",":","D","D",":","E","E",":","0","1">>,
          cct_only |-> FALSE, infinity_mode |-> 1, hw_mac |-> <<>>,
          supports_status_query |-> "None", supports_extended_scene |-> "None"]
    ELSE [name |-> <<"S","N","L","6","6","0">>,
          address |-> <<"A","A",":","B","B",":","C","C",":","D","D",":","E","E",":","0","2">>,
          cct_only |-> TRUE, infinity_mode |-> 0, hw_mac |-> <<>>,
          supports_status_query |-> "None", supports_extended_scene |-> "None"]

\* argparse defaults (lines 1943-2016, 2055-2059) for the fields the encoder reads
DefaultArgs ==
    [on |-> FALSE, off |-> FALSE, mode |-> <<"C","C","T">>,
     temp |-> 56, hue |-> 240, sat |-> 100, bri |-> 100, gm |-> 0, scene |-> 1,
     scene_bright_min |-> 0, scene_bright_max |-> 100,
     scene_temp_min |-> 3200, scene_temp_max |-> 5600,
     scene_hue_min |-> 0, scene_hue_max |-> 360,
     scene_speed |-> 5, scene_sparks |-> 0, scene_special |-> 1,
     enable_extended_scene |-> FALSE]

\* Command lines of the model
ArgChoices ==
    { [DefaultArgs EXCEPT !.on = TRUE],
      [DefaultArgs EXCEPT !.on = TRUE, !.off = TRUE],
      [DefaultArgs EXCEPT !.temp = 5600, !.bri = 40],
      [DefaultArgs EXCEPT !.temp = 7000, !.bri = 40],
      [DefaultArgs EXCEPT !.mode = <<"h","s","i">>, !.bri = 50],
      [DefaultArgs EXCEPT !.mode = <<"S","C","E","N","E">>, !.scene = 22, !.bri = 60] }

build_base_command(a) ==
    IF a.on THEN Ok(set_power_bytestring(TRUE))
    ELSE IF a.off THEN Ok(set_power_bytestring(FALSE))
    ELSE LET b == calculate_bytestring(a.mode, a)
         IN  IF b.ok THEN b ELSE Raise("ConfigError")

\* lines 2073-2074
validate_runtime_args(a) == IF a.on /\ a.off THEN Raise("ConfigError") ELSE Ok(<<>>)

VARIABLES
    run_mode,            \* "oneshot", "serve" or "status" (args.serve, args.status)
    lights,              \* addresses found by discovery (input of the engine)
    missing,             \* targeted addresses discovery never found
    args,                \* parsed command line
    config,              \* AppConfig
    light,               \* address -> LightInfo fields
    base_command,        \* default base command of the current delivery
    per_light_commands,  \* address -> base command override
    targets,             \* lights argument of the current send_command_adaptive
    exit_code,           \* run_serve_mode: exit_code
    verbs,               \* run_serve_mode: lines read so far
    pc,                  \* position of the main coroutine
    phase,               \* which run_bounded the main coroutine awaits
    attempt,             \* pass number of send_command_adaptive
    pending,             \* send_command_adaptive: pending
    failures,            \* send_command_adaptive: failures
    retry_next,          \* send_command_adaptive: retry_next
    ready,               \* connect_targets: ready
    client,              \* light.client: "None" or "client"
    linked,              \* light.client.is_connected
    tstate,              \* run_bounded task of each item
    tries,               \* retry counter of the running connect / write
    idx,                 \* send_command_once: index of the frame being written
    plan,                \* send_command_once: payload_sequence
    res,                 \* return value of each task
    sent,                \* history: events of the current send_command_once
    delivered,           \* history: some pass wrote the whole plan
    rejected,            \* history: pass in which the plan was refused, 0 if never
    opened,              \* history: a session was opened
    disc_attempted,      \* history: client.disconnect() was awaited on the session
    last_ok,             \* history: outcome of the latest connect or send, "none" before
    interrupted,         \* history: the run was interrupted by the user
    drops,               \* links dropped so far
    qpc,                 \* position of query_light_status_once / query_notify_payload
    qwhich,              \* which query runs: "power" or "channel"
    qtry,                \* query_notify_payload: attempt
    seen,                \* query_notify_payload: seen
    base_idx,            \* query_notify_payload: base_idx
    got,                 \* power_payload and channel_payload, <<>> for None
    ops,                 \* history: transport operations of the status query
    qresult,             \* return value of query_light_status_once
    rc,                  \* exit code of main(), -1 while running
    discover_targets,    \* discover_with_retries: target_addresses, <<>> for None or <<set>>
    collect_all,         \* discover_with_retries: collect_all
    scan_attempt,        \* discover_with_retries: attempt, 0 before the loop
    collected,           \* discover_with_retries: collected, address -> rssi
    strongest,           \* history: strongest RSSI sighted so far, per address
    dpc,                 \* position of discover_with_retries
    calls,               \* history: disconnect_light calls that returned, per fixture
    untagged,            \* tag_checksum: payload
    tagged,              \* tag_checksum: return value, <<>> before the call
    selector,            \* selector_to_addresses: selector
    groups,              \* selector_to_addresses: groups, name -> addresses
    resolved,            \* selector_to_addresses: outcome, NoResult before the call
    argv,                \* async_main: argv, the command line tokens
    config_data,         \* async_main: config_data
    passed,              \* history: the settings parse_args took from argv
    opc,                 \* position of the configuration-layer call: "idle", "call", ..., "done"
    cpc,                 \* connect_light: position of the call, per fixture
    handle,              \* connect_light: client, "None" or "client"
    last_error,          \* connect_light: last_error
    conn_ops,            \* history: what connect_light awaited and how connect() ended
    light_seq,           \* send_command_adaptive / query_status_adaptive: lights, by address
    todo,                \* the keys of pending, in dict order
    jobs,                \* run_bounded: the tasks of the current gather, one per item
    wr_pc,               \* write_payload: position of the call
    wr_frame,            \* write_payload: payload and response
    wr_retries,          \* write_payload: retries
    wr_attempt,          \* write_payload: attempt
    wr_last_error,       \* write_payload: last_error
    wr_ops,              \* history: what write_payload awaited and how each write ended
    wr_result            \* write_payload: return value, NoResult before the return

inputs == <<run_mode, lights, missing, args, config, base_command, per_light_commands,
            targets>>

serve == <<exit_code, verbs>>

discovery == <<discover_targets, collect_all, scan_attempt, collected, strongest, dpc>>

attempting == <<cpc, handle, last_error, conn_ops>>

batch == <<light_seq, todo, jobs>>

writing == <<wr_pc, wr_frame, wr_retries, wr_attempt, wr_last_error, wr_ops, wr_result>>

setup == <<untagged, tagged, selector, groups, resolved, argv, config_data, passed, opc,
           attempting, batch, writing>>

query == <<qpc, qwhich, qtry, seen, base_idx, got, ops, qresult>>

engine == <<attempt, pending, failures, retry_next, ready>>

tasks == <<tstate, tries, idx, plan, res>>

history == <<sent, delivered, rejected, opened, disc_attempted, last_ok, interrupted>>

vars == <<inputs, serve, query, light, pc, phase, engine, client, linked, tasks,
          history, drops, rc, discovery, calls, setup>>

NoResult == [ok |-> FALSE, err |-> ""]

Result(ok, err) == [ok |-> ok, err |-> err]

is_light_connected(f) == client[f] # "None" /\ linked[f]

\* run_bounded: the semaphore's width (line 1145)
Width == Max(1, config.parallel)

InProgress == {f \in Lights : tstate[f] \in {"connecting", "writing", "sleeping",
                                             "disconnecting"}}

\* Mutant of SemFree: the semaphore never blocks
SemFreeUnbounded == TRUE

\* `async with sem` can be entered
SemFree == Cardinality(InProgress) < Width

AllDone == \A f \in Lights : tstate[f] \in {"idle", "done"}

\* Mutant of GatherComplete: the gather returns as soon as one task has failed
GatherFailFast ==
    AllDone \/ \E f \in Lights : tstate[f] = "done" /\ ~res[f].ok

\* asyncio.gather of run_bounded returns once every task has returned (line 1151)
GatherComplete == AllDone

CommandFor(f) ==
    IF f \in DOMAIN per_light_commands THEN per_light_commands[f] ELSE base_command

\* run_bounded(items, ...): one task per item, none started yet
Gather(items) == [f \in Lights |-> IF f \in items THEN "waiting" ELSE "idle"]

IdleTasks ==
    /\ tstate' = [f \in Lights |-> "idle"]
    /\ tries' = [f \in Lights |-> 0]
    /\ idx' = [f \in Lights |-> 0]
    /\ plan' = [f \in Lights |-> <<>>]
    /\ res' = [f \in Lights |-> NoResult]

Configs ==
    [passes : 1..MaxPasses, connect_retries : 1..MaxConnectRetries,
     write_retries : 1..MaxWriteRetries, parallel : 1..MaxParallel,
     settle_delay : {0}, power_with_response : {TRUE},
     enable_status_query : {FALSE}]

NoStatus == [ok |-> FALSE, err |-> "", status |-> <<>>]

\* No discovery runs and no disconnect_light call has returned
InitDiscovery ==
    /\ discover_targets = <<>>
    /\ collect_all = FALSE
    /\ scan_attempt = 0
    /\ collected = <<>>
    /\ strongest = <<>>
    /\ dpc = "idle"
    /\ calls = [f \in Lights |-> 0]

\* No write_payload call is modelled step by step in this run
InitWriting ==
    /\ wr_pc = "idle"
    /\ wr_frame = <<>>
    /\ wr_retries = 0
    /\ wr_attempt = 0
    /\ wr_last_error = ""
    /\ wr_ops = <<>>
    /\ wr_result = NoResult

\* No run_bounded call is modelled item by item in this run
InitBatch ==
    /\ light_seq = <<>>
    /\ todo = <<>>
    /\ jobs = <<>>

\* No connect_light call is modelled step by step in this run
InitAttempt ==
    /\ cpc = [f \in Lights |-> "idle"]
    /\ handle = [f \in Lights |-> "None"]
    /\ last_error = [f \in Lights |-> ""]
    /\ conn_ops = [f \in Lights |-> <<>>]

\* No checksum, selector or overlay call is modelled in this run
InitSetup ==
    /\ InitAttempt
    /\ InitBatch
    /\ InitWriting
    /\ untagged = <<>>
    /\ tagged = <<>>
    /\ selector = <<>>
    /\ groups = <<>>
    /\ resolved = NoResult
    /\ argv = <<>>
    /\ config_data = <<>>
    /\ passed = <<>>
    /\ opc = "idle"

InitQuery ==
    /\ qpc = [f \in Lights |-> "idle"]
    /\ qwhich = [f \in Lights |-> "none"]
    /\ qtry = [f \in Lights |-> 0]
    /\ seen = [f \in Lights |-> <<>>]
    /\ base_idx = [f \in Lights |-> 0]
    /\ got = [f \in Lights |-> [power |-> <<>>, channel |-> <<>>]]
    /\ ops = [f \in Lights |-> <<>>]
    /\ qresult = [f \in Lights |-> NoStatus]

InitEngine ==
    /\ base_command = <<>>
    /\ per_light_commands = <<>>
    /\ targets = {}
    /\ exit_code = 0
    /\ verbs = 0
    /\ pc = "start"
    /\ phase = "none"
    /\ attempt = 0
    /\ pending = {}
    /\ failures = <<>>
    /\ retry_next = {}
    /\ ready = {}
    /\ tstate = [f \in Lights |-> "idle"]
    /\ tries = [f \in Lights |-> 0]
    /\ idx = [f \in Lights |-> 0]
    /\ plan = [f \in Lights |-> <<>>]
    /\ res = [f \in Lights |-> NoResult]
    /\ sent = [f \in Lights |-> <<>>]
    /\ delivered = [f \in Lights |-> FALSE]
    /\ rejected = [f \in Lights |-> 0]
    /\ opened = [f \in Lights |-> FALSE]
    /\ disc_attempted = [f \in Lights |-> FALSE]
    /\ last_ok = [f \in Lights |-> "none"]
    /\ interrupted = FALSE
    /\ drops = 0
    /\ rc = -1

InitCommon ==
    /\ light = [f \in Lights |-> DiscoveredLight(f)]
    /\ InitEngine
    /\ client = [f \in Lights |-> "None"]
    /\ linked = [f \in Lights |-> FALSE]
    /\ InitQuery
    /\ InitSetup
    /\ InitDiscovery

Init ==
    /\ run_mode = "oneshot"
    /\ lights \in SUBSET Lights
    /\ missing \in SUBSET (Lights \ lights)
    /\ args \in ArgChoices
    /\ config \in Configs
    /\ InitCommon

\* ------------------------------------------------------------------------
\* Failure maps
\* ------------------------------------------------------------------------

\* fm with fm[f] = e[f] for every f of S
SetFail(fm, S, e) ==
    [f \in (DOMAIN fm) \cup S |-> IF f \in S THEN e[f] ELSE fm[f]]

\* fm.pop(f, None) for every f of S
PopAll(fm, S) == [f \in (DOMAIN fm) \ S |-> fm[f]]

\* ------------------------------------------------------------------------
\* send_command_adaptive / connect_targets (main coroutine)
\* ------------------------------------------------------------------------

\* lines 1330-1331
StartAdaptive(ls) ==
    /\ pending' = ls
    /\ failures' = <<>>
    /\ retry_next' = {}
    /\ ready' = {}
    /\ attempt' = 1

\* Mutant of ToConnect: every target is connected again
ToConnectAll(ls) == ls

\* connect_targets: to_connect (line 1309)
ToConnect(ls) == {f \in ls : ~is_light_connected(f)}

\* connect_targets: ready (line 1320)
ReadySet(ls) == {f \in ls : is_light_connected(f)}

\* Mutant of RetryAfterSend: every light of the send phase is carried over
RetryAfterSendAll(bad) == ready

\* Lights carried to the next pass after the send phase (lines 1367-1369)
RetryAfterSend(bad) == bad

\* connect_targets has returned with connect failures cf (lines 1316-1321), and
\* send_command_adaptive goes on to its send phase (lines 1340-1355) or to
\* the next pass (line 1371)
AfterConnectTargets(cf) ==
    LET rdy == ReadySet(pending)
        fl == SetFail(failures, cf, [f \in cf |->
                  IF res[f].err # "" THEN res[f].err ELSE "unknown connect error"])
    IN  /\ failures' = fl
        /\ IF rdy # {}
           THEN /\ ready' = rdy
                /\ retry_next' = cf
                /\ tstate' = Gather(rdy)
                /\ tries' = [f \in Lights |-> 0]
                /\ idx' = [f \in Lights |-> 0]
                /\ plan' = [f \in Lights |-> <<>>]
                /\ res' = [f \in Lights |-> NoResult]
                /\ phase' = "send"
                /\ pc' = "gather"
                /\ UNCHANGED <<pending, attempt>>
           ELSE /\ ready' = {}
                /\ retry_next' = {}
                /\ pending' = cf
                /\ attempt' = attempt + 1
                /\ IdleTasks
                /\ phase' = "none"
                /\ pc' = "pass"

\* One iteration of the pass loop up to its first await (lines 1333-1338)
PassBegin ==
    /\ pc = "pass"
    /\ attempt <= config.passes
    /\ pending # {}
    /\ IF ToConnect(pending) # {}
       THEN /\ tstate' = Gather(ToConnect(pending))
            /\ tries' = [f \in Lights |-> 0]
            /\ idx' = [f \in Lights |-> 0]
            /\ plan' = [f \in Lights |-> <<>>]
            /\ res' = [f \in Lights |-> NoResult]
            /\ phase' = "connect"
            /\ pc' = "gather"
            /\ UNCHANGED engine
       ELSE AfterConnectTargets({})
    /\ UNCHANGED <<inputs, discovery, calls, setup, serve, query, light, client, linked, history, drops, rc>>

\* run_bounded of the connect phase has gathered every task
ConnectJoin ==
    /\ pc = "gather"
    /\ phase = "connect"
    /\ GatherComplete
    /\ AfterConnectTargets({f \in Lights : tstate[f] = "done" /\ ~res[f].ok})
    /\ UNCHANGED <<inputs, discovery, calls, setup, serve, query, light, client, linked, history, drops, rc>>

\* Mutant of SendJoin: the pass counter does not advance
SendJoinSamePass ==
    /\ pc = "gather"
    /\ phase = "send"
    /\ GatherComplete
    /\ LET oks == {f \in ready : res[f].ok}
           bad == ready \ oks
       IN  /\ failures' = SetFail(PopAll(failures, oks), bad, [f \in bad |->
                              IF res[f].err # "" THEN res[f].err ELSE "write failed"])
           /\ pending' = retry_next \cup RetryAfterSend(bad)
    /\ retry_next' = {}
    /\ ready' = {}
    /\ attempt' = attempt
    /\ IdleTasks
    /\ phase' = "none"
    /\ pc' = "pass"
    /\ UNCHANGED <<inputs, discovery, calls, setup, serve, query, light, client, linked, history, drops, rc>>

\* run_bounded of the send phase has gathered every task (lines 1356-1371)
SendJoin ==
    /\ pc = "gather"
    /\ phase = "send"
    /\ GatherComplete
    /\ LET oks == {f \in ready : res[f].ok}
           bad == ready \ oks
       IN  /\ failures' = SetFail(PopAll(failures, oks), bad, [f \in bad |->
                              IF res[f].err # "" THEN res[f].err ELSE "write failed"])
           /\ pending' = retry_next \cup RetryAfterSend(bad)
    /\ retry_next' = {}
    /\ ready' = {}
    /\ attempt' = attempt + 1
    /\ IdleTasks
    /\ phase' = "none"
    /\ pc' = "pass"
    /\ UNCHANGED <<inputs, discovery, calls, setup, serve, query, light, client, linked, history, drops, rc>>

\* ------------------------------------------------------------------------
\* run_bounded tasks: connect_light
\* ------------------------------------------------------------------------

\* The task enters the semaphore and awaits client.connect() (lines 1148, 1091-1104)
ConnectStart(f) ==
    /\ phase = "connect"
    /\ tstate[f] = "waiting"
    /\ SemFree
    /\ tstate' = [tstate EXCEPT ![f] = "connecting"]
    /\ tries' = [tries EXCEPT ![f] = 1]
    /\ UNCHANGED <<inputs, discovery, calls, setup, serve, query, light, pc, phase, engine, client, linked, idx, plan, res,
                   history, drops, rc>>

\* Mutant of HwMacAfterConnect: a configured hw_mac is kept
HwMacKeepsConfigured(l) ==
    IF l.hw_mac = <<>> /\ l.infinity_mode = 1 /\ CountColons(l.address) = 5
    THEN l.address ELSE l.hw_mac

\* hw_mac after a successful connect (lines 1108-1109)
HwMacAfterConnect(l) ==
    IF l.infinity_mode = 1 /\ CountColons(l.address) = 5 THEN l.address ELSE l.hw_mac

\* client.connect() returned and the client reports connected (lines 1105-1110)
ConnectOk(f) ==
    /\ tstate[f] = "connecting"
    /\ client' = [client EXCEPT ![f] = "client"]
    /\ linked' = [linked EXCEPT ![f] = TRUE]
    /\ light' = [light EXCEPT ![f].hw_mac = HwMacAfterConnect(light[f])]
    /\ opened' = [opened EXCEPT ![f] = TRUE]
    /\ res' = [res EXCEPT ![f] = Result(TRUE, "")]
    /\ tstate' = [tstate EXCEPT ![f] = "done"]
    /\ tries' = [tries EXCEPT ![f] = 0]
    /\ last_ok' = [last_ok EXCEPT ![f] = "ok"]
    /\ UNCHANGED <<inputs, discovery, calls, setup, serve, query, pc, phase, engine, idx, plan, sent, delivered,
                   rejected, disc_attempted, interrupted, drops, rc>>

\* The attempt raised, or connect() returned without a connection: the partial
\* client is disconnected best-effort, the task sleeps and tries again or
\* returns the last error (lines 1111-1120)
ConnectFail(f) ==
    /\ tstate[f] = "connecting"
    /\ IF tries[f] < config.connect_retries
       THEN /\ tries' = [tries EXCEPT ![f] = tries[f] + 1]
            /\ UNCHANGED <<tstate, res, last_ok>>
       ELSE /\ res' = [res EXCEPT ![f] = Result(FALSE, "connect error")]
            /\ tstate' = [tstate EXCEPT ![f] = "done"]
            /\ tries' = [tries EXCEPT ![f] = 0]
            /\ last_ok' = [last_ok EXCEPT ![f] = "fail"]
    /\ UNCHANGED <<inputs, discovery, calls, setup, serve, query, light, pc, phase, engine, client, linked, idx, plan,
                   sent, delivered, rejected, opened, disc_attempted, interrupted,
                   drops, rc>>

\* ------------------------------------------------------------------------
\* run_bounded tasks: send_command_once / write_payload
\* ------------------------------------------------------------------------

\* The loop of line 1194 moves to the next frame, or returns success (line 1205)
NextFrame(f) ==
    IF idx[f] < Len(plan[f])
    THEN /\ idx' = [idx EXCEPT ![f] = idx[f] + 1]
         /\ tries' = [tries EXCEPT ![f] = 1]
         /\ tstate' = [tstate EXCEPT ![f] = "writing"]
         /\ UNCHANGED <<res, last_ok>>
    ELSE /\ res' = [res EXCEPT ![f] = Result(TRUE, "")]
         /\ tstate' = [tstate EXCEPT ![f] = "done"]
         /\ idx' = [idx EXCEPT ![f] = 0]
         /\ tries' = [tries EXCEPT ![f] = 0]
         /\ last_ok' = [last_ok EXCEPT ![f] = "ok"]

\* Mutant of AfterWriteFailure: the loop goes on with the next frame
AfterWriteFailureSkips(f) == NextFrame(f)

\* What a task does after a frame's write_payload returned failure (lines 1198-1199)
AfterWriteFailure(f) ==
    /\ res' = [res EXCEPT ![f] = Result(FALSE, "write error")]
    /\ tstate' = [tstate EXCEPT ![f] = "done"]
    /\ idx' = [idx EXCEPT ![f] = 0]
    /\ tries' = [tries EXCEPT ![f] = 0]
    /\ last_ok' = [last_ok EXCEPT ![f] = "fail"]

\* Mutant of SendStart: a call that follows a failed one goes on after the
\* frames the failed call had written
SendStartResumes(f) ==
    /\ phase = "send"
    /\ tstate[f] = "waiting"
    /\ SemFree
    /\ sent' = [sent EXCEPT ![f] = <<>>]
    /\ IF ~is_light_connected(f)
       THEN /\ res' = [res EXCEPT ![f] = Result(FALSE, "not connected")]
            /\ tstate' = [tstate EXCEPT ![f] = "done"]
            /\ last_ok' = [last_ok EXCEPT ![f] = "fail"]
            /\ UNCHANGED <<idx, tries, plan, rejected>>
       ELSE LET p == PlanFor(light[f], CommandFor(f), config.power_with_response)
            IN  IF ~p.ok
                THEN /\ res' = [res EXCEPT ![f] = Result(FALSE, p.err)]
                     /\ tstate' = [tstate EXCEPT ![f] = "done"]
                     /\ rejected' = [rejected EXCEPT ![f] = attempt]
                     /\ last_ok' = [last_ok EXCEPT ![f] = "fail"]
                     /\ UNCHANGED <<idx, tries, plan>>
                ELSE /\ plan' = [plan EXCEPT ![f] = p.val]
                     /\ idx' = [idx EXCEPT ![f] =
                                LET w == Cardinality({i \in 1..Len(sent[f]) :
                                                          sent[f][i].op = "write"})
                                IN  IF last_ok[f] = "fail" /\ w < Len(p.val)
                                    THEN w + 1 ELSE 1]
                     /\ tries' = [tries EXCEPT ![f] = 1]
                     /\ tstate' = [tstate EXCEPT ![f] = "writing"]
                     /\ UNCHANGED <<res, rejected, last_ok>>
    /\ UNCHANGED <<inputs, discovery, calls, setup, serve, query, light, pc, phase, engine, client, linked, delivered,
                   opened, disc_attempted, interrupted, drops, rc>>

\* The task enters the semaphore and runs send_command_once up to its first
\* await (lines 1181-1196)
SendStart(f) ==
    /\ phase = "send"
    /\ tstate[f] = "waiting"
    /\ SemFree
    /\ sent' = [sent EXCEPT ![f] = <<>>]
    /\ IF ~is_light_connected(f)
       THEN /\ res' = [res EXCEPT ![f] = Result(FALSE, "not connected")]
            /\ tstate' = [tstate EXCEPT ![f] = "done"]
            /\ last_ok' = [last_ok EXCEPT ![f] = "fail"]
            /\ UNCHANGED <<idx, tries, plan, rejected>>
       ELSE LET p == PlanFor(light[f], CommandFor(f), config.power_with_response)
            IN  IF ~p.ok
                THEN /\ res' = [res EXCEPT ![f] = Result(FALSE, p.err)]
                     /\ tstate' = [tstate EXCEPT ![f] = "done"]
                     /\ rejected' = [rejected EXCEPT ![f] = attempt]
                     /\ last_ok' = [last_ok EXCEPT ![f] = "fail"]
                     /\ UNCHANGED <<idx, tries, plan>>
                ELSE /\ plan' = [plan EXCEPT ![f] = p.val]
                     /\ idx' = [idx EXCEPT ![f] = 1]
                     /\ tries' = [tries EXCEPT ![f] = 1]
                     /\ tstate' = [tstate EXCEPT ![f] = "writing"]
                     /\ UNCHANGED <<res, rejected, last_ok>>
    /\ UNCHANGED <<inputs, discovery, calls, setup, serve, query, light, pc, phase, engine, client, linked, delivered,
                   opened, disc_attempted, interrupted, drops, rc>>

WriteEvent(fr) ==
    [op |-> "write", char |-> "SET_LIGHT_UUID", payload |-> fr.payload,
     response |-> fr.response]

SleepEvent(ms) == [op |-> "sleep", ms |-> ms]

\* Payloads written by the current send_command_once, in order
Written(log) ==
    LET W == {i \in 1..Len(log) : log[i].op = "write"}
        RECURSIVE pick(_, _)
        pick(i, acc) == IF i > Len(log) THEN acc
                        ELSE pick(i + 1, IF i \in W THEN Append(acc, log[i].payload)
                                         ELSE acc)
    IN  pick(1, <<>>)

PlanPayloads(pl) == [i \in 1..Len(pl) |-> pl[i].payload]

\* write_gatt_char returned (lines 1164-1165), then lines 1201-1203
WriteOk(f) ==
    /\ tstate[f] = "writing"
    /\ is_light_connected(f)
    /\ LET fr == plan[f][idx[f]]
           delay == Max(config.settle_delay, fr.delay)
           log == Append(sent[f], WriteEvent(fr))
       IN  /\ sent' = [sent EXCEPT ![f] = log]
           /\ delivered' = [delivered EXCEPT ![f] =
                               delivered[f] \/ Written(log) = PlanPayloads(plan[f])]
           /\ IF delay > 0
              THEN /\ tstate' = [tstate EXCEPT ![f] = "sleeping"]
                   /\ UNCHANGED <<idx, tries, res, last_ok>>
              ELSE NextFrame(f)
    /\ UNCHANGED <<inputs, discovery, calls, setup, serve, query, light, pc, phase, engine, client, linked, plan,
                   rejected, opened, disc_attempted, interrupted, drops, rc>>

\* asyncio.sleep(delay) of line 1203 returned
SleepReturn(f) ==
    /\ tstate[f] = "sleeping"
    /\ sent' = [sent EXCEPT ![f] =
                   Append(sent[f], SleepEvent(Max(config.settle_delay,
                                                  plan[f][idx[f]].delay)))]
    /\ NextFrame(f)
    /\ UNCHANGED <<inputs, discovery, calls, setup, serve, query, light, pc, phase, engine, client, linked, plan,
                   delivered, rejected, opened, disc_attempted, interrupted, drops, rc>>

\* write_gatt_char raised: write_payload sleeps and retries, or returns the
\* last error (lines 1166-1175)
WriteFail(f) ==
    /\ tstate[f] = "writing"
    /\ IF tries[f] < config.write_retries
       THEN /\ tries' = [tries EXCEPT ![f] = tries[f] + 1]
            /\ UNCHANGED <<tstate, idx, res, last_ok>>
       ELSE AfterWriteFailure(f)
    /\ UNCHANGED <<inputs, discovery, calls, setup, serve, query, light, pc, phase, engine, client, linked, plan,
                   sent, delivered, rejected, opened, disc_attempted, interrupted,
                   drops, rc>>

\* ------------------------------------------------------------------------
\* run_bounded tasks: disconnect_light
\* ------------------------------------------------------------------------

\* The task enters the semaphore and runs disconnect_light up to its await
\* (lines 1124-1128), or to its end when there is nothing to await
DisconnectStart(f) ==
    /\ phase = "drain"
    /\ tstate[f] = "waiting"
    /\ SemFree
    /\ IF client[f] = "None"
       THEN /\ tstate' = [tstate EXCEPT ![f] = "done"]
            /\ UNCHANGED <<client, linked, disc_attempted>>
       ELSE IF linked[f]
       THEN /\ tstate' = [tstate EXCEPT ![f] = "disconnecting"]
            /\ disc_attempted' = [disc_attempted EXCEPT ![f] = TRUE]
            /\ UNCHANGED <<client, linked>>
       ELSE /\ client' = [client EXCEPT ![f] = "None"]
            /\ tstate' = [tstate EXCEPT ![f] = "done"]
            /\ UNCHANGED <<linked, disc_attempted>>
    /\ UNCHANGED <<inputs, discovery, calls, setup, serve, query, light, pc, phase, engine, tries, idx, plan, res,
                   sent, delivered, rejected, opened, last_ok, interrupted, drops, rc>>

\* client.disconnect() returned or raised: the slot is cleared either way
\* (lines 1134-1137)
DisconnectReturn(f) ==
    /\ tstate[f] = "disconnecting"
    /\ client' = [client EXCEPT ![f] = "None"]
    /\ linked' = [linked EXCEPT ![f] = FALSE]
    /\ tstate' = [tstate EXCEPT ![f] = "done"]
    /\ UNCHANGED <<inputs, discovery, calls, setup, serve, query, light, pc, phase, engine, tries, idx, plan, res,
                   history, drops, rc>>

\* ------------------------------------------------------------------------
\* async_main / main: the one-shot command run
\* ------------------------------------------------------------------------

\* Mutant of status_code: missing targets are not counted
status_code_ignores_missing == IF DOMAIN failures # {} THEN 2 ELSE 0

\* lines 1893-1895
status_code == IF missing # {} \/ DOMAIN failures # {} THEN 2 ELSE 0

\* async_main up to the first pass (lines 1789, 1838-1840, 1871-1881); a
\* ConfigError is caught by main (lines 2089-2091)
Startup ==
    /\ pc = "start"
    /\ run_mode = "oneshot"
    /\ IF ~validate_runtime_args(args).ok
       THEN /\ rc' = 2
            /\ pc' = "exit"
            /\ UNCHANGED <<base_command, targets, engine>>
       ELSE IF lights = {}
       THEN /\ rc' = 1
            /\ pc' = "exit"
            /\ UNCHANGED <<base_command, targets, engine>>
       ELSE /\ base_command' = build_base_command(args).val
            /\ targets' = lights
            /\ StartAdaptive(lights)
            /\ pc' = "pass"
            /\ UNCHANGED rc
    /\ UNCHANGED <<discovery, calls, setup, run_mode, lights, missing, args, config, per_light_commands,
                   serve, query, light, phase, client, linked, tasks, history, drops>>

\* The lights async_main drains (line 1882)
DrainSet(ls) == {f \in ls : is_light_connected(f)}

\* send_command_adaptive returned (lines 1333-1335, 1373); async_main starts
\* the drain or returns (lines 1882-1904)
OneShotAfterSend ==
    /\ pc = "pass"
    /\ run_mode = "oneshot"
    /\ attempt > config.passes \/ pending = {}
    /\ IF DrainSet(lights) # {}
       THEN /\ tstate' = Gather(DrainSet(lights))
            /\ phase' = "drain"
            /\ pc' = "gather"
            /\ UNCHANGED rc
       ELSE /\ rc' = status_code
            /\ pc' = "exit"
            /\ UNCHANGED <<tstate, phase>>
    /\ UNCHANGED <<inputs, discovery, calls, setup, serve, query, light, engine, client, linked, tries, idx, plan, res,
                   history, drops>>

\* The drain has gathered every task (lines 1888-1904)
OneShotDrainJoin ==
    /\ pc = "gather"
    /\ phase = "drain"
    /\ run_mode = "oneshot"
    /\ GatherComplete
    /\ rc' = status_code
    /\ pc' = "exit"
    /\ phase' = "none"
    /\ IdleTasks
    /\ UNCHANGED <<inputs, discovery, calls, setup, serve, query, light, engine, client, linked, history, drops>>

\* KeyboardInterrupt while async_main awaits a run_bounded: asyncio.run cancels
\* the main task, no handler of async_main runs, main returns 130
\* (lines 2092-2094).  The locals of the cancelled coroutines are gone.
OneShotInterrupt ==
    /\ pc = "gather"
    /\ run_mode = "oneshot"
    /\ rc' = 130
    /\ pc' = "exit"
    /\ phase' = "none"
    /\ IdleTasks
    /\ pending' = {}
    /\ failures' = <<>>
    /\ retry_next' = {}
    /\ ready' = {}
    /\ attempt' = 0
    /\ sent' = [f \in Lights |-> <<>>]
    /\ delivered' = [f \in Lights |-> FALSE]
    /\ rejected' = [f \in Lights |-> 0]
    /\ last_ok' = [f \in Lights |-> "none"]
    /\ interrupted' = TRUE
    /\ UNCHANGED <<inputs, discovery, calls, setup, serve, query, light, client, linked, opened, disc_attempted, drops>>

\* ------------------------------------------------------------------------
\* Environment
\* ------------------------------------------------------------------------

\* The transport of an open session loses its link
LinkDrop(f) ==
    /\ pc # "exit"
    /\ is_light_connected(f)
    /\ drops < MaxDrops
    /\ linked' = [linked EXCEPT ![f] = FALSE]
    /\ drops' = drops + 1
    /\ UNCHANGED <<inputs, discovery, calls, setup, serve, query, light, pc, phase, engine, client, tasks, history, rc>>

\* ------------------------------------------------------------------------
\* Specification of the one-shot command run
\* ------------------------------------------------------------------------

Next ==
    \/ Startup
    \/ PassBegin
    \/ ConnectJoin
    \/ SendJoin
    \/ OneShotAfterSend
    \/ OneShotDrainJoin
    \/ OneShotInterrupt
    \/ \E f \in Lights : ConnectStart(f)
    \/ \E f \in Lights : ConnectOk(f)
    \/ \E f \in Lights : ConnectFail(f)
    \/ \E f \in Lights : SendStart(f)
    \/ \E f \in Lights : WriteOk(f)
    \/ \E f \in Lights : WriteFail(f)
    \/ \E f \in Lights : SleepReturn(f)
    \/ \E f \in Lights : DisconnectStart(f)
    \/ \E f \in Lights : DisconnectReturn(f)
    \/ \E f \in Lights : LinkDrop(f)

Spec == Init /\ [][Next]_vars

\* ------------------------------------------------------------------------
\* Specification of a one-shot run that is not interrupted and in which every
\* transport operation returns: the event loop keeps running whatever can run
\* ------------------------------------------------------------------------

MaxTermRetries == 2

\* Both fixtures are discovered and get a CCT command; passes is
\* max(1, args.passes) (build_config, line 1473); the tasks run one at a time
\* or all at once
InitTerm ==
    /\ run_mode = "oneshot"
    /\ lights = Lights
    /\ missing = {}
    /\ args = [DefaultArgs EXCEPT !.temp = 5600, !.bri = 40]
    /\ config \in [passes : {Max(1, p) : p \in 0..MaxPasses},
                    connect_retries : 1..MaxTermRetries,
                    write_retries : 1..MaxTermRetries,
                    parallel : {1, Cardinality(Lights)},
                    settle_delay : {0}, power_with_response : {TRUE},
                    enable_status_query : {FALSE}]
    /\ InitCommon

\* Every step of the run but the start of a send task
TermOther ==
    \/ Startup
    \/ PassBegin
    \/ ConnectJoin
    \/ SendJoin
    \/ OneShotAfterSend
    \/ OneShotDrainJoin
    \/ \E f \in Lights : ConnectStart(f)
    \/ \E f \in Lights : ConnectOk(f)
    \/ \E f \in Lights : ConnectFail(f)
    \/ \E f \in Lights : WriteOk(f)
    \/ \E f \in Lights : WriteFail(f)
    \/ \E f \in Lights : SleepReturn(f)
    \/ \E f \in Lights : DisconnectStart(f)
    \/ \E f \in Lights : DisconnectReturn(f)
    \/ \E f \in Lights : LinkDrop(f)

NextTerm ==
    \/ TermOther
    \/ \E f \in Lights : SendStart(f)

\* A send task is queued and the semaphore has a free slot: the guard of
\* SendStart(f), which is enabled exactly then
SendReady(f) ==
    /\ phase = "send"
    /\ tstate[f] = "waiting"
    /\ SemFree

\* The event loop runs a callback whenever one is ready, and every awaited
\* transport operation returns.  The last conjunct is
\* WF_vars(\E f \in Lights : SendStart(f)) with ENABLED written as SendReady.
SpecTerm ==
    /\ InitTerm
    /\ [][NextTerm]_vars
    /\ WF_vars(TermOther)
    /\ \/ []<>~(\E f \in Lights : SendReady(f))
       \/ []<><<\E f \in Lights : SendStart(f)>>_vars

\* ------------------------------------------------------------------------
\* Specification of a one-shot run of a command with a plan of several
\* frames: a scene for the Infinity fixture L1 (three frames; the CCT-only L2
\* refuses it) or CCT for the CCT-only fixture L2 (two frames), with write
\* retries
\* ------------------------------------------------------------------------

InitRetry ==
    /\ run_mode = "oneshot"
    /\ lights = Lights
    /\ missing = {}
    /\ args \in { [DefaultArgs EXCEPT !.temp = 5600, !.bri = 40],
                  [DefaultArgs EXCEPT !.mode = <<"S","C","E","N","E">>, !.scene = 22,
                                      !.bri = 60] }
    /\ config \in [passes : 1..MaxPasses, connect_retries : {1},
                   write_retries : 1..MaxTermRetries,
                   parallel : {1, Cardinality(Lights)},
                   settle_delay : {0}, power_with_response : {TRUE},
                   enable_status_query : {FALSE}]
    /\ InitCommon

SpecRetry == InitRetry /\ [][Next]_vars

\* ------------------------------------------------------------------------
\* Specification of one send_command_once call on a connected fixture
\* ------------------------------------------------------------------------

NonMacAddress == <<"1","2","3","4","-","A","B","C","D">>

\* Fixture descriptors: config metadata can set every capability combination
\* (lines 528-530, 577-580); the address is a MAC or a platform identifier
OnceProfiles ==
    [name : {<<"S","L","9","0">>, <<"S","N","L","6","6","0">>},
     address : {DiscoveredLight("L1").address, NonMacAddress},
     cct_only : BOOLEAN,
     infinity_mode : 0..2,
     hw_mac : {<<>>, DiscoveredLight("L2").address},
     supports_status_query : {"None"},
     supports_extended_scene : {"None"}]

\* Base commands of the encoder for the command lines of the model
OnceCommands ==
    {build_base_command(a).val : a \in {x \in ArgChoices : validate_runtime_args(x).ok}}

OnceOverrides ==
    {<<>>} \cup {[x \in {"L1"} |-> c] :
                    c \in {build_base_command([DefaultArgs EXCEPT !.mode = <<"H","S","I">>]).val,
                           build_base_command(DefaultArgs).val}}

InitOnce ==
    /\ run_mode = "once"
    /\ lights = {"L1"}
    /\ missing = {}
    /\ args = DefaultArgs
    /\ config \in [passes : {1}, connect_retries : {1},
                   write_retries : 1..MaxWriteRetries, parallel : {1},
                   settle_delay : {0, 50}, power_with_response : BOOLEAN,
                   enable_status_query : {FALSE}]
    /\ \E p \in OnceProfiles :
           light = [f \in Lights |-> IF f = "L1" THEN p ELSE DiscoveredLight(f)]
    /\ base_command \in OnceCommands
    /\ per_light_commands \in OnceOverrides
    /\ targets = {"L1"}
    /\ exit_code = 0
    /\ verbs = 0
    /\ pc = "once"
    /\ phase = "send"
    /\ attempt = 1
    /\ pending = {"L1"}
    /\ failures = <<>>
    /\ retry_next = {}
    /\ ready = {"L1"}
    /\ client = [f \in Lights |-> IF f = "L1" THEN "client" ELSE "None"]
    /\ linked = [f \in Lights |-> f = "L1"]
    /\ tstate = Gather({"L1"})
    /\ tries = [f \in Lights |-> 0]
    /\ idx = [f \in Lights |-> 0]
    /\ plan = [f \in Lights |-> <<>>]
    /\ res = [f \in Lights |-> NoResult]
    /\ sent = [f \in Lights |-> <<>>]
    /\ delivered = [f \in Lights |-> FALSE]
    /\ rejected = [f \in Lights |-> 0]
    /\ opened = [f \in Lights |-> f = "L1"]
    /\ disc_attempted = [f \in Lights |-> FALSE]
    /\ last_ok = [f \in Lights |-> "none"]
    /\ interrupted = FALSE
    /\ drops = 0
    /\ rc = -1
    /\ InitQuery
    /\ InitSetup
    /\ InitDiscovery

NextOnce ==
    \/ \E f \in Lights : SendStart(f)
    \/ \E f \in Lights : WriteOk(f)
    \/ \E f \in Lights : WriteFail(f)
    \/ \E f \in Lights : SleepReturn(f)
    \/ \E f \in Lights : LinkDrop(f)

SpecOnce == InitOnce /\ [][NextOnce]_vars

\* ------------------------------------------------------------------------
\* Specification of the encoder followed by one send_command_once call:
\* build_base_command(args), then validation, dialect branching and writes
\* ------------------------------------------------------------------------

\* Model names: four ModelSpecs entries with different Kelvin ranges
\* (SL90 2500-10000, Apollo 5600-5600, MS60B 2700-6500, SNL660 3200-5600)
\* and one name no entry matches
PlanNames ==
    { <<"S","L","9","0">>, <<"A","p","o","l","l","o">>, <<"M","S","6","0","B">>,
      <<"S","N","L","6","6","0">>, <<"F","S","1","5","0","B">> }

\* Fixture descriptors: discovery and config metadata can produce every
\* combination of capability fields (lines 528-547, 577-586, 1001-1015)
PlanProfiles ==
    [name : PlanNames,
     address : {DiscoveredLight("L1").address, NonMacAddress},
     cct_only : BOOLEAN,
     infinity_mode : 0..2,
     hw_mac : {<<>>, DiscoveredLight("L2").address},
     supports_status_query : {"None"},
     supports_extended_scene : {"None", "True", "False"}]

\* Command lines: power, CCT with temperatures inside and outside the model
\* ranges and two GM values, HSI, short scenes, extended scenes (effect 19
\* has a five-byte extended form), and a mode the encoder refuses
PlanArgs ==
    { [DefaultArgs EXCEPT !.on = TRUE], [DefaultArgs EXCEPT !.off = TRUE] }
    \cup { [DefaultArgs EXCEPT !.temp = k, !.bri = 40, !.gm = g] :
               k \in {20, 3000, 5600, 7000}, g \in {0, 30} }
    \cup { [DefaultArgs EXCEPT !.mode = <<"H","S","I">>, !.hue = 300, !.bri = 50] }
    \cup { [DefaultArgs EXCEPT !.mode = <<"S","C","E","N","E">>, !.scene = 22, !.bri = 60],
           [DefaultArgs EXCEPT !.mode = <<"a","n","m">>, !.scene = 1] }
    \cup { [DefaultArgs EXCEPT !.mode = <<"S","C","E","N","E">>, !.scene = e, !.bri = 60,
                               !.enable_extended_scene = TRUE] : e \in {12, 19, 22} }
    \cup { [DefaultArgs EXCEPT !.mode = <<"R","G","B">>] }

InitPlan ==
    /\ run_mode = "once"
    /\ lights = {"L1"}
    /\ missing = {}
    /\ args \in PlanArgs
    /\ config \in [passes : {1}, connect_retries : {1},
                   write_retries : 1..MaxWriteRetries, parallel : {1},
                   settle_delay : {0}, power_with_response : {TRUE},
                   enable_status_query : {FALSE}]
    /\ \E p \in PlanProfiles :
           light = [f \in Lights |-> IF f = "L1" THEN p ELSE DiscoveredLight(f)]
    /\ InitEngine
    /\ client = [f \in Lights |-> IF f = "L1" THEN "client" ELSE "None"]
    /\ linked = [f \in Lights |-> f = "L1"]
    /\ InitQuery
    /\ InitSetup
    /\ InitDiscovery

\* build_base_command(args) (lines 1484-1492, called at line 1871); its
\* ConfigError ends main with code 2 (lines 2089-2091).  The command then
\* goes to send_command_once for the connected fixture L1.
BuildCommand ==
    /\ pc = "start"
    /\ run_mode = "once"
    /\ LET b == build_base_command(args)
       IN  IF ~b.ok
           THEN /\ rc' = 2
                /\ pc' = "exit"
                /\ UNCHANGED <<base_command, targets, phase, tstate>>
           ELSE /\ base_command' = b.val
                /\ targets' = {"L1"}
                /\ pc' = "once"
                /\ phase' = "send"
                /\ tstate' = Gather({"L1"})
                /\ UNCHANGED rc
    /\ UNCHANGED <<discovery, calls, setup, run_mode, lights, missing, args, config, per_light_commands, serve,
                   query, light, engine, client, linked, tries, idx, plan, res,
                   history, drops>>

NextPlan ==
    \/ BuildCommand
    \/ \E f \in Lights : SendStart(f)
    \/ \E f \in Lights : WriteOk(f)
    \/ \E f \in Lights : WriteFail(f)
    \/ \E f \in Lights : SleepReturn(f)

SpecPlan == InitPlan /\ [][NextPlan]_vars

\* ------------------------------------------------------------------------
\* Specification of a one-shot run for a fixture with config metadata: L1 of
\* any dialect, with a MAC or another kind of address, and with the hw_mac
\* of its config entry (lines 583-584)
\* ------------------------------------------------------------------------

\* The hw_mac of the config entry of L1, which is not L1's address
ConfiguredHwMac == DiscoveredLight("L2").address

InitMac ==
    /\ run_mode = "oneshot"
    /\ lights = {"L1"}
    /\ missing = {}
    /\ args \in { [DefaultArgs EXCEPT !.on = TRUE],
                  [DefaultArgs EXCEPT !.temp = 5600, !.bri = 40],
                  [DefaultArgs EXCEPT !.mode = <<"S","C","E","N","E">>, !.scene = 22,
                                      !.bri = 60] }
    /\ config \in [passes : 1..MaxPasses, connect_retries : 1..MaxConnectRetries,
                   write_retries : {1}, parallel : {1},
                   settle_delay : {0}, power_with_response : {TRUE},
                   enable_status_query : {FALSE}]
    /\ \E m \in 0..2, a \in {DiscoveredLight("L1").address, NonMacAddress} :
           light = [f \in Lights |->
                       IF f = "L1"
                       THEN [DiscoveredLight(f) EXCEPT !.infinity_mode = m, !.address = a,
                                                       !.hw_mac = ConfiguredHwMac]
                       ELSE DiscoveredLight(f)]
    /\ InitEngine
    /\ client = [f \in Lights |-> "None"]
    /\ linked = [f \in Lights |-> FALSE]
    /\ InitQuery
    /\ InitSetup
    /\ InitDiscovery

SpecMac == InitMac /\ [][Next]_vars

\* ------------------------------------------------------------------------
\* Specification of the encoder over wide integer inputs, followed by one
\* send_command_once call on the Infinity fixture L1
\* ------------------------------------------------------------------------

\* Integer arguments below, at, between and above the limits of every field,
\* and around the Kelvin threshold and the rounding halves
EncodeArgs ==
    LET EncodeValues == {-300, -51, -1, 0, 25, 50, 100, 101, 255, 256, 360,
                         361, 1000, 2450, 2550, 5600, 10050, 70000}
    IN  { [DefaultArgs EXCEPT !.bri = b, !.temp = k, !.gm = g] :
              b \in EncodeValues, k \in EncodeValues, g \in EncodeValues }
        \cup { [DefaultArgs EXCEPT !.mode = <<"h","s","i">>, !.hue = h, !.sat = s,
                                   !.bri = b] :
                   h \in EncodeValues, s \in EncodeValues, b \in EncodeValues }
        \cup { [DefaultArgs EXCEPT !.mode = m, !.scene = e, !.bri = b,
                                   !.enable_extended_scene = x] :
                   m \in {<<"S","C","E","N","E">>, <<"a","n","m">>},
                   e \in EncodeValues \cup 1..29, b \in {-1, 60, 101},
                   x \in BOOLEAN }
        \cup { [DefaultArgs EXCEPT !.temp = k] :
                   k \in 0..120 \cup {-5, 999, 1049, 1051, 1149, 1150, 1151,
                                      2449, 2451, 2500, 5650, 5651, 9999, 10000,
                                      10049, 10051, 10100, 65535} }
        \cup { [DefaultArgs EXCEPT !.on = TRUE], [DefaultArgs EXCEPT !.off = TRUE] }

InitEncode ==
    /\ run_mode = "once"
    /\ lights = {"L1"}
    /\ missing = {}
    /\ args \in EncodeArgs
    /\ config = [passes |-> 1, connect_retries |-> 1, write_retries |-> 1,
                 parallel |-> 1, settle_delay |-> 0, power_with_response |-> TRUE,
                 enable_status_query |-> FALSE]
    /\ light = [f \in Lights |-> DiscoveredLight(f)]
    /\ InitEngine
    /\ client = [f \in Lights |-> IF f = "L1" THEN "client" ELSE "None"]
    /\ linked = [f \in Lights |-> f = "L1"]
    /\ InitQuery
    /\ InitSetup
    /\ InitDiscovery

SpecEncode == InitEncode /\ [][NextPlan]_vars

\* ------------------------------------------------------------------------
\* Specification of one send_command_once call with a short-form scene
\* command of every effect number, on every kind of fixture
\* ------------------------------------------------------------------------

\* --mode SCENE --scene e for the effects 1..29 and the two values next to
\* them, which the encoder clamps
SceneArgs ==
    { [DefaultArgs EXCEPT !.mode = <<"S","C","E","N","E">>, !.scene = e, !.bri = 60] :
          e \in 0..30 }

InitScene ==
    /\ run_mode = "once"
    /\ lights = {"L1"}
    /\ missing = {}
    /\ args \in SceneArgs
    /\ config \in [passes : {1}, connect_retries : {1},
                   write_retries : 1..MaxWriteRetries, parallel : {1},
                   settle_delay : {0}, power_with_response : {TRUE},
                   enable_status_query : {FALSE}]
    /\ \E p \in PlanProfiles :
           light = [f \in Lights |-> IF f = "L1" THEN p ELSE DiscoveredLight(f)]
    /\ InitEngine
    /\ client = [f \in Lights |-> IF f = "L1" THEN "client" ELSE "None"]
    /\ linked = [f \in Lights |-> f = "L1"]
    /\ InitQuery
    /\ InitSetup
    /\ InitDiscovery

SpecScene == InitScene /\ [][NextPlan]_vars

\* ------------------------------------------------------------------------
\* Status querier: query_light_status_once / query_notify_payload
\* ------------------------------------------------------------------------

\* lines 39-40
STATUS_QUERY_POWER == <<120, 133, 0, 253>>

STATUS_QUERY_CHANNEL == <<120, 132, 0, 252>>

\* lines 695-705
UnsupportedStatusPrefixes ==
    { <<"F","S">>, <<"C","B">>, <<"M","S">>, <<"A","S">>,
      <<"A","P","O","L","L","O">>, <<"H","B">>, <<"H","S">>,
      <<"T","L","1","2","0">>, <<"P","L">> }

\* lines 709-721
SupportedStatusPrefixes ==
    { <<"S","L">>, <<"S","N","L">>, <<"R","G","B">>, <<"G","L">>, <<"N","L">>,
      <<"S","R","P">>, <<"W","R","P">>, <<"Z","R","P">>,
      <<"C","L","1","2","4">>, <<"Z","K","-","R","Y">>, <<"T","L","6","0">> }

model_supports_status_query(l) ==
    IF l.supports_status_query # "None" THEN l.supports_status_query = "True"
    ELSE LET name_upper == Upper(l.name)
         IN  IF name_upper = <<>> THEN FALSE
             ELSE IF \E p \in UnsupportedStatusPrefixes : StartsWith(name_upper, p)
             THEN FALSE
             ELSE \E p \in SupportedStatusPrefixes : StartsWith(name_upper, p)

\* Mutant of parse_status_payload: every power byte but 1 reads as standby
parse_status_payload_two_states(power_payload, channel_payload) ==
    [power |-> IF Len(power_payload) > 3
               THEN IF power_payload[4] = 1 THEN "ON" ELSE "STBY"
               ELSE "UNKNOWN",
     channel |-> IF Len(channel_payload) > 3 THEN channel_payload[4] ELSE "---",
     power_raw |-> power_payload,
     channel_raw |-> channel_payload]

\* The dict parse_status_payload returns; None is <<>>
parse_status_payload(power_payload, channel_payload) ==
    [power |-> IF Len(power_payload) > 3
               THEN IF power_payload[4] = 1 THEN "ON"
                    ELSE IF power_payload[4] = 2 THEN "STBY" ELSE "UNKNOWN"
               ELSE "UNKNOWN",
     channel |-> IF Len(channel_payload) > 3 THEN channel_payload[4] ELSE "---",
     power_raw |-> power_payload,
     channel_raw |-> channel_payload]

StatusResult(ok, err, status) == [ok |-> ok, err |-> err, status |-> status]

\* Mutant of StatusQueryGate: the feature switch is not consulted
StatusQueryGateIgnoresEnable(f) ==
    IF ~is_light_connected(f) THEN "not connected"
    ELSE IF ~model_supports_status_query(light[f])
    THEN "status query not supported by this model"
    ELSE ""

\* The early returns of query_light_status_once (lines 1271-1276): the error
\* returned, or "" when the query goes on
StatusQueryGate(f) ==
    IF ~is_light_connected(f) THEN "not connected"
    ELSE IF ~config.enable_status_query THEN "status query feature is disabled"
    ELSE IF ~model_supports_status_query(light[f])
    THEN "status query not supported by this model"
    ELSE ""

NotifyOp(name) == [op |-> name, char |-> "NOTIFY_LIGHT_UUID"]

QueryWriteOp(command) ==
    [op |-> "write", char |-> "SET_LIGHT_UUID", payload |-> command, response |-> FALSE]

QueryCommand(which) ==
    IF which = "power" THEN STATUS_QUERY_POWER ELSE STATUS_QUERY_CHANNEL

\* expected_type of the two calls (lines 1282, 1289)
ExpectedType(which) == IF which = "power" THEN 2 ELSE 1

\* Indexes of seen[base_idx:] that satisfy line 1253
Matches(f) ==
    {i \in (base_idx[f] + 1)..Len(seen[f]) :
        Len(seen[f][i]) > 1 /\ seen[f][i][2] = ExpectedType(qwhich[f])}

\* Notifications the fixture may send
NotifyPayloads == { <<120, 2, 1, 1>>, <<120, 1, 1, 5>>, <<120>> }

\* Notifications delivered to one query_notify_payload call
MaxNotifs == 2

\* query_notify_payload is entered: start_notify is awaited (line 1244)
BeginNotifyQuery(f, which) ==
    /\ qwhich' = [qwhich EXCEPT ![f] = which]
    /\ qtry' = [qtry EXCEPT ![f] = 0]
    /\ seen' = [seen EXCEPT ![f] = <<>>]
    /\ base_idx' = [base_idx EXCEPT ![f] = 0]
    /\ ops' = [ops EXCEPT ![f] = Append(ops[f], NotifyOp("start_notify"))]
    /\ qpc' = [qpc EXCEPT ![f] = "start_notify"]

\* query_light_status_once up to its first await (lines 1271-1279)
QueryStart(f) ==
    /\ qpc[f] = "call"
    /\ IF StatusQueryGate(f) # ""
       THEN /\ qresult' = [qresult EXCEPT ![f] =
                              StatusResult(FALSE, StatusQueryGate(f), <<>>)]
            /\ qpc' = [qpc EXCEPT ![f] = "done"]
            /\ UNCHANGED <<qwhich, qtry, seen, base_idx, ops>>
       ELSE /\ BeginNotifyQuery(f, "power")
            /\ UNCHANGED qresult
    /\ UNCHANGED <<inputs, discovery, calls, setup, serve, got, light, pc, phase, engine, client, linked,
                   tasks, history, drops, rc>>

\* One attempt of the loop of line 1247 begins: buffer mark, then the write
QueryAttempt(f) ==
    /\ qtry' = [qtry EXCEPT ![f] = qtry[f] + 1]
    /\ base_idx' = [base_idx EXCEPT ![f] = Len(seen[f])]
    /\ ops' = [ops EXCEPT ![f] = Append(ops[f], QueryWriteOp(QueryCommand(qwhich[f])))]
    /\ qpc' = [qpc EXCEPT ![f] = "write"]

\* start_notify returned (lines 1245-1249)
StartNotifyReturn(f) ==
    /\ qpc[f] = "start_notify"
    /\ QueryAttempt(f)
    /\ UNCHANGED <<inputs, discovery, calls, setup, serve, qwhich, seen, got, qresult, light, pc, phase,
                   engine, client, linked, tasks, history, drops, rc>>

\* start_notify raised: nothing was subscribed, query_light_status_once
\* returns the error (lines 1292-1293)
StartNotifyRaise(f) ==
    /\ qpc[f] = "start_notify"
    /\ qresult' = [qresult EXCEPT ![f] = StatusResult(FALSE, "notify error", <<>>)]
    /\ qpc' = [qpc EXCEPT ![f] = "done"]
    /\ UNCHANGED <<inputs, discovery, calls, setup, serve, qwhich, qtry, seen, base_idx, got, ops, light,
                   pc, phase, engine, client, linked, tasks, history, drops, rc>>

\* The fixture notifies while the subscription is active; the callback
\* appends to seen (lines 1238-1242)
Notification(f, payload) ==
    /\ qpc[f] \in {"write", "wait", "backoff"}
    /\ Len(seen[f]) < MaxNotifs
    /\ seen' = [seen EXCEPT ![f] = Append(seen[f], payload)]
    /\ UNCHANGED <<inputs, discovery, calls, setup, serve, qpc, qwhich, qtry, base_idx, got, ops, qresult,
                   light, pc, phase, engine, client, linked, tasks, history,
                   drops, rc>>

\* The finally block awaits stop_notify (lines 1258-1261)
BeginStopNotify(f, raising) ==
    /\ ops' = [ops EXCEPT ![f] = Append(ops[f], NotifyOp("stop_notify"))]
    /\ qpc' = [qpc EXCEPT ![f] = IF raising THEN "stop_notify_raising"
                                ELSE "stop_notify"]

\* The first payload of the expected type after the mark is returned and the
\* finally block runs (lines 1253-1255)
ReturnMatch(f) ==
    /\ LET i == CHOOSE k \in Matches(f) : \A j \in Matches(f) : k <= j
       IN  got' = [got EXCEPT ![f][qwhich[f]] = seen[f][i]]
    /\ BeginStopNotify(f, FALSE)

\* write_gatt_char returned: the deadline is set and the first poll follows
\* at once (lines 1251-1255); without a match the attempt sleeps 50 ms
QueryWriteReturn(f) ==
    /\ qpc[f] = "write"
    /\ IF Matches(f) # {}
       THEN ReturnMatch(f)
       ELSE /\ qpc' = [qpc EXCEPT ![f] = "wait"]
            /\ UNCHANGED <<got, ops>>
    /\ UNCHANGED <<inputs, discovery, calls, setup, serve, qwhich, qtry, seen, base_idx, qresult,
                   light, pc, phase, engine, client, linked, tasks, history,
                   drops, rc>>

\* write_gatt_char raised: the exception leaves through the finally block
QueryWriteRaise(f) ==
    /\ qpc[f] = "write"
    /\ ops' = [ops EXCEPT ![f] = ops[f] \o <<[op |-> "write raised"],
                                             NotifyOp("stop_notify")>>]
    /\ qpc' = [qpc EXCEPT ![f] = "stop_notify_raising"]
    /\ UNCHANGED <<inputs, discovery, calls, setup, serve, qwhich, qtry, seen, base_idx, got, qresult,
                   light, pc, phase, engine, client, linked, tasks, history,
                   drops, rc>>

\* The 50 ms sleep of line 1256 ends before the deadline and the poll finds a
\* payload of the expected type after the mark (lines 1252-1255)
QueryMatch(f) ==
    /\ qpc[f] = "wait"
    /\ Matches(f) # {}
    /\ ReturnMatch(f)
    /\ UNCHANGED <<inputs, discovery, calls, setup, serve, qwhich, qtry, seen, base_idx, qresult, light,
                   pc, phase, engine, client, linked, tasks, history, drops, rc>>

\* The 50 ms sleep of line 1256 ends at or after the deadline: the loop of
\* line 1252 ends without another look at the buffer, whatever arrived during
\* the sleep, and the back-off sleep follows (line 1257)
QueryDeadline(f) ==
    /\ qpc[f] = "wait"
    /\ qpc' = [qpc EXCEPT ![f] = "backoff"]
    /\ UNCHANGED <<inputs, discovery, calls, setup, serve, qwhich, qtry, seen, base_idx, got, ops, qresult,
                   light, pc, phase, engine, client, linked, tasks, history,
                   drops, rc>>

\* The back-off is over: next attempt, or the loop ends and None is returned
BackoffReturn(f) ==
    /\ qpc[f] = "backoff"
    /\ IF qtry[f] < config.write_retries
       THEN QueryAttempt(f)
       ELSE /\ BeginStopNotify(f, FALSE)
            /\ UNCHANGED <<qtry, base_idx>>
    /\ UNCHANGED <<inputs, discovery, calls, setup, serve, qwhich, seen, got, qresult, light, pc, phase,
                   engine, client, linked, tasks, history, drops, rc>>

\* Mutant of StopNotifyReturn: an error of stop_notify becomes the result
StopNotifyErrorSurfaces(f, raised) ==
    /\ qpc[f] \in {"stop_notify", "stop_notify_raising", "stop_notify_cancelled"}
    /\ ops' = [ops EXCEPT ![f] = Append(ops[f], [op |-> IF raised THEN "stop_notify raised"
                                                      ELSE "stop_notify returned"])]
    /\ IF raised \/ qpc[f] = "stop_notify_raising"
       THEN /\ qresult' = [qresult EXCEPT ![f] = StatusResult(FALSE, "write error", <<>>)]
            /\ qpc' = [qpc EXCEPT ![f] = "done"]
            /\ UNCHANGED <<qwhich, qtry, seen, base_idx>>
       ELSE /\ qpc' = [qpc EXCEPT ![f] = "cancelled"]
            /\ UNCHANGED <<qresult, qwhich, qtry, seen, base_idx>>
    /\ UNCHANGED <<inputs, discovery, calls, setup, serve, got, light, pc, phase, engine, client, linked,
                   tasks, history, drops, rc>>

\* stop_notify returned or raised (its error is swallowed, lines 1262-1263);
\* then the pending exception goes on (an Exception to line 1292, a
\* CancelledError out of query_light_status_once), or the channel query
\* starts, or query_light_status_once returns (lines 1295-1299)
StopNotifyReturn(f, raised) ==
    /\ qpc[f] \in {"stop_notify", "stop_notify_raising", "stop_notify_cancelled"}
    /\ IF qpc[f] = "stop_notify_cancelled"
       THEN /\ qpc' = [qpc EXCEPT ![f] = "cancelled"]
            /\ ops' = [ops EXCEPT ![f] = Append(ops[f],
                          [op |-> IF raised THEN "stop_notify raised"
                                  ELSE "stop_notify returned"])]
            /\ UNCHANGED <<qresult, qwhich, qtry, seen, base_idx>>
       ELSE IF qpc[f] = "stop_notify_raising"
       THEN /\ qresult' = [qresult EXCEPT ![f] = StatusResult(FALSE, "write error", <<>>)]
            /\ qpc' = [qpc EXCEPT ![f] = "done"]
            /\ ops' = [ops EXCEPT ![f] = Append(ops[f],
                          [op |-> IF raised THEN "stop_notify raised"
                                  ELSE "stop_notify returned"])]
            /\ UNCHANGED <<qwhich, qtry, seen, base_idx>>
       ELSE IF qwhich[f] = "power"
       THEN /\ qwhich' = [qwhich EXCEPT ![f] = "channel"]
            /\ qtry' = [qtry EXCEPT ![f] = 0]
            /\ seen' = [seen EXCEPT ![f] = <<>>]
            /\ base_idx' = [base_idx EXCEPT ![f] = 0]
            /\ ops' = [ops EXCEPT ![f] = ops[f] \o
                          <<[op |-> IF raised THEN "stop_notify raised"
                                    ELSE "stop_notify returned"],
                            NotifyOp("start_notify")>>]
            /\ qpc' = [qpc EXCEPT ![f] = "start_notify"]
            /\ UNCHANGED qresult
       ELSE /\ qresult' = [qresult EXCEPT ![f] =
                   IF got[f].power = <<>> /\ got[f].channel = <<>>
                   THEN StatusResult(FALSE, "status query timed out (no notify response)",
                                     <<>>)
                   ELSE StatusResult(TRUE, "",
                                     parse_status_payload(got[f].power, got[f].channel))]
            /\ qpc' = [qpc EXCEPT ![f] = "done"]
            /\ ops' = [ops EXCEPT ![f] = Append(ops[f],
                          [op |-> IF raised THEN "stop_notify raised"
                                  ELSE "stop_notify returned"])]
            /\ UNCHANGED <<qwhich, qtry, seen, base_idx>>
    /\ UNCHANGED <<inputs, discovery, calls, setup, serve, got, light, pc, phase, engine, client, linked,
                   tasks, history, drops, rc>>

\* The task is cancelled while query_notify_payload awaits write_gatt_char or
\* a sleep: CancelledError is raised inside the try block and the finally
\* block awaits stop_notify (lines 1258-1261).  Cancelled while it awaits
\* start_notify (line 1244, before the try block) or stop_notify (whose
\* `except Exception` does not handle a CancelledError), the call ends at once.
QueryCancelled(f) ==
    /\ qpc[f] \in {"start_notify", "write", "wait", "backoff", "stop_notify",
                   "stop_notify_raising", "stop_notify_cancelled"}
    /\ IF qpc[f] \in {"write", "wait", "backoff"}
       THEN /\ ops' = [ops EXCEPT ![f] = ops[f] \o <<[op |-> "cancelled"],
                                                      NotifyOp("stop_notify")>>]
            /\ qpc' = [qpc EXCEPT ![f] = "stop_notify_cancelled"]
       ELSE /\ ops' = [ops EXCEPT ![f] = Append(ops[f], [op |-> "cancelled"])]
            /\ qpc' = [qpc EXCEPT ![f] = "cancelled"]
    /\ UNCHANGED <<inputs, discovery, calls, setup, serve, qwhich, qtry, seen, base_idx, got, qresult,
                   light, pc, phase, engine, client, linked, tasks, history,
                   drops, rc>>

\* ------------------------------------------------------------------------
\* Specification of one query_light_status_once call
\* ------------------------------------------------------------------------

\* Advertised names of the model
StatusNames ==
    { <<"S","L","9","0">>, <<"s","n","l","6","6","0">>, <<"F","S","1","5","0","B">>,
      <<"T","L","1","2","0">>, <<"T","L","6","0">>, <<"N","W","-","X">>, <<>> }

StatusProfiles ==
    [name : StatusNames,
     address : {DiscoveredLight("L1").address},
     cct_only : {FALSE},
     infinity_mode : {0},
     hw_mac : {<<>>},
     supports_status_query : {"None", "True", "False"},
     supports_extended_scene : {"None"}]

\* The session slot of the fixture: empty, connected, or a stale handle
SessionStates == {<<"None", FALSE>>, <<"client", TRUE>>, <<"client", FALSE>>}

InitStatus ==
    /\ run_mode = "query_once"
    /\ lights = {"L1"}
    /\ missing = {}
    /\ args = DefaultArgs
    /\ config \in [passes : {1}, connect_retries : {1},
                   write_retries : 1..MaxWriteRetries, parallel : {1},
                   settle_delay : {0}, power_with_response : {TRUE},
                   enable_status_query : BOOLEAN]
    /\ \E p \in StatusProfiles :
           light = [f \in Lights |-> IF f = "L1" THEN p ELSE DiscoveredLight(f)]
    /\ InitEngine
    /\ \E s \in SessionStates :
           /\ client = [f \in Lights |-> IF f = "L1" THEN s[1] ELSE "None"]
           /\ linked = [f \in Lights |-> f = "L1" /\ s[2]]
    /\ qpc = [f \in Lights |-> IF f = "L1" THEN "call" ELSE "idle"]
    /\ qwhich = [f \in Lights |-> "none"]
    /\ qtry = [f \in Lights |-> 0]
    /\ seen = [f \in Lights |-> <<>>]
    /\ base_idx = [f \in Lights |-> 0]
    /\ got = [f \in Lights |-> [power |-> <<>>, channel |-> <<>>]]
    /\ ops = [f \in Lights |-> <<>>]
    /\ qresult = [f \in Lights |-> NoStatus]
    /\ InitSetup
    /\ InitDiscovery

NextStatus ==
    \/ \E f \in Lights : QueryStart(f)
    \/ \E f \in Lights : StartNotifyReturn(f)
    \/ \E f \in Lights : StartNotifyRaise(f)
    \/ \E f \in Lights, payload \in NotifyPayloads : Notification(f, payload)
    \/ \E f \in Lights : QueryWriteReturn(f)
    \/ \E f \in Lights : QueryWriteRaise(f)
    \/ \E f \in Lights : QueryMatch(f)
    \/ \E f \in Lights : QueryDeadline(f)
    \/ \E f \in Lights : BackoffReturn(f)
    \/ \E f \in Lights, raised \in BOOLEAN : StopNotifyReturn(f, raised)

SpecStatus == InitStatus /\ [][NextStatus]_vars

\* ------------------------------------------------------------------------
\* Specification of one query_light_status_once call that gets past its early
\* returns, with retries and with cancellation by the host
\* ------------------------------------------------------------------------

MaxQueryRetries == 2

InitQuerying ==
    /\ run_mode = "query_notify"
    /\ lights = {"L1"}
    /\ missing = {}
    /\ args = DefaultArgs
    /\ config \in [passes : {1}, connect_retries : {1},
                   write_retries : 1..MaxQueryRetries, parallel : {1},
                   settle_delay : {0}, power_with_response : {TRUE},
                   enable_status_query : {TRUE}]
    /\ light = [f \in Lights |-> DiscoveredLight(f)]
    /\ InitEngine
    /\ client = [f \in Lights |-> IF f = "L1" THEN "client" ELSE "None"]
    /\ linked = [f \in Lights |-> f = "L1"]
    /\ qpc = [f \in Lights |-> IF f = "L1" THEN "call" ELSE "idle"]
    /\ qwhich = [f \in Lights |-> "none"]
    /\ qtry = [f \in Lights |-> 0]
    /\ seen = [f \in Lights |-> <<>>]
    /\ base_idx = [f \in Lights |-> 0]
    /\ got = [f \in Lights |-> [power |-> <<>>, channel |-> <<>>]]
    /\ ops = [f \in Lights |-> <<>>]
    /\ qresult = [f \in Lights |-> NoStatus]
    /\ InitSetup
    /\ InitDiscovery

\* Notifications the fixture may send: power ON, standby and another power
\* state, a channel, and payloads too short to decode or to have a type
QueryPayloads ==
    { <<120, 2, 1, 1>>, <<120, 2, 1, 2>>, <<120, 2, 1, 0>>, <<120, 1, 1, 5>>,
      <<120, 1>>, <<120>> }

NextQuery ==
    \/ \E f \in Lights : QueryStart(f)
    \/ \E f \in Lights : StartNotifyReturn(f)
    \/ \E f \in Lights : StartNotifyRaise(f)
    \/ \E f \in Lights, payload \in QueryPayloads : Notification(f, payload)
    \/ \E f \in Lights : QueryWriteReturn(f)
    \/ \E f \in Lights : QueryWriteRaise(f)
    \/ \E f \in Lights : QueryMatch(f)
    \/ \E f \in Lights : QueryDeadline(f)
    \/ \E f \in Lights : BackoffReturn(f)
    \/ \E f \in Lights, raised \in BOOLEAN : StopNotifyReturn(f, raised)
    \/ \E f \in Lights : QueryCancelled(f)

SpecQuery == InitQuerying /\ [][NextQuery]_vars

\* ------------------------------------------------------------------------
\* Serve loop: build_serve_command, select_session_lights, run_serve_mode
\* ------------------------------------------------------------------------

\* Lines a serve session reads
MaxVerbs == 2

\* What build_serve_command returns: target_addresses ("None" for every
\* session light), base_command, per_light_commands
ServeCommand(base) ==
    Ok([target_addresses |-> "None", base_command |-> base.val,
        per_light_commands |-> <<>>])

RECURSIVE ShlexScan(_, _, _, _, _, _)
\* The tokenizer of shlex.split (POSIX rules, blanks as separators): st is
\* " " between tokens, "a" inside a word, a quote character inside a quoted
\* part, "\\" after an escape character, and back is the state an escape
\* returns to.  A line that ends inside quotes or after an escape character
\* raises ValueError.
ShlexScan(s, i, st, back, tok, acc) ==
    IF i > Len(s)
    THEN IF st \in {"'", "\"", "\\"} THEN Raise("ValueError")
         ELSE IF st = "a" THEN Ok(Append(acc, tok))
         ELSE Ok(acc)
    ELSE LET c == s[i]
         IN  IF st = " "
             THEN IF c = " " THEN ShlexScan(s, i + 1, " ", back, <<>>, acc)
                  ELSE IF c = "\\" THEN ShlexScan(s, i + 1, "\\", "a", <<>>, acc)
                  ELSE IF c \in {"'", "\""} THEN ShlexScan(s, i + 1, c, back, <<>>, acc)
                  ELSE ShlexScan(s, i + 1, "a", back, <<c>>, acc)
             ELSE IF st = "a"
             THEN IF c = " " THEN ShlexScan(s, i + 1, " ", back, <<>>, Append(acc, tok))
                  ELSE IF c = "\\" THEN ShlexScan(s, i + 1, "\\", "a", tok, acc)
                  ELSE IF c \in {"'", "\""} THEN ShlexScan(s, i + 1, c, back, tok, acc)
                  ELSE ShlexScan(s, i + 1, "a", back, Append(tok, c), acc)
             ELSE IF st \in {"'", "\""}
             THEN IF c = st THEN ShlexScan(s, i + 1, "a", back, tok, acc)
                  ELSE IF st = "\"" /\ c = "\\"
                  THEN ShlexScan(s, i + 1, "\\", "\"", tok, acc)
                  ELSE ShlexScan(s, i + 1, st, back, Append(tok, c), acc)
             ELSE IF back = "\"" /\ c \notin {"\\", "\""}
             THEN ShlexScan(s, i + 1, back, back, tok \o <<"\\", c>>, acc)
             ELSE ShlexScan(s, i + 1, back, back, Append(tok, c), acc)

\* shlex.split(line) (line 1584)
shlex_split(line) == ShlexScan(line, 1, " ", "a", <<>>, <<>>)

\* build_serve_command for a configuration that defines no preset (a preset
\* line then fails at line 424); the ValueError of shlex.split is not a
\* ConfigError
build_serve_command(line, base_args) ==
    LET split == shlex_split(line)
        tokens == split.val
        cmd == Lower(tokens[1])
        n == Len(tokens)
    IN  IF ~split.ok THEN split
        ELSE IF tokens = <<>> THEN Raise("ConfigError")
        ELSE IF cmd = <<"p","r","e","s","e","t">> THEN Raise("ConfigError")
        ELSE IF cmd = <<"o","n">>
        THEN IF n # 1 THEN Raise("ConfigError")
             ELSE ServeCommand(build_base_command(
                      [base_args EXCEPT !.on = TRUE, !.off = FALSE]))
        ELSE IF cmd = <<"o","f","f">>
        THEN IF n # 1 THEN Raise("ConfigError")
             ELSE ServeCommand(build_base_command(
                      [base_args EXCEPT !.on = FALSE, !.off = TRUE]))
        ELSE IF cmd = <<"c","c","t">>
        THEN IF n \notin {3, 4} THEN Raise("ConfigError")
             ELSE ServeCommand(build_base_command(
                      [base_args EXCEPT !.on = FALSE, !.off = FALSE,
                          !.mode = <<"C","C","T">>,
                          !.temp = to_int(tokens[2], base_args.temp),
                          !.bri = to_int(tokens[3], base_args.bri),
                          !.gm = IF n = 4 THEN to_int(tokens[4], 0) ELSE 0]))
        ELSE IF cmd = <<"h","s","i">>
        THEN IF n # 4 THEN Raise("ConfigError")
             ELSE ServeCommand(build_base_command(
                      [base_args EXCEPT !.on = FALSE, !.off = FALSE,
                          !.mode = <<"H","S","I">>,
                          !.hue = to_int(tokens[2], base_args.hue),
                          !.sat = to_int(tokens[3], base_args.sat),
                          !.bri = to_int(tokens[4], base_args.bri)]))
        ELSE IF cmd \in {<<"s","c","e","n","e">>, <<"a","n","m">>}
        THEN IF n # 3 THEN Raise("ConfigError")
             ELSE ServeCommand(build_base_command(
                      [base_args EXCEPT !.on = FALSE, !.off = FALSE,
                          !.mode = <<"S","C","E","N","E">>,
                          !.scene = to_int(tokens[2], base_args.scene),
                          !.bri = to_int(tokens[3], base_args.bri)]))
        ELSE Raise("ConfigError")

\* select_session_lights: the selected session lights
select_session_lights(session_lights, target_addresses) ==
    IF target_addresses = "None" THEN session_lights
    ELSE session_lights \cap target_addresses

\* Lines typed at the prompt
ServeLines ==
    { <<"o","n">>,
      <<"H","S","I"," ","1","2","0"," ","1","0","0"," ","5","0">>,
      <<"c","c","t"," ","5","6","0","0"," ","4","0">>,
      <<"s","c","e","n","e"," ","3">>,
      <<"o","n"," ","\"">>,
      <<"d","i","m"," ","5">>,
      <<" "," ">>,
      <<"h","e","l","p">>,
      <<"Q","U","I","T">> }

ServeConfigs ==
    [passes : 1..MaxPasses, connect_retries : {1}, write_retries : {1},
     parallel : 1..MaxParallel, settle_delay : {0}, power_with_response : {TRUE},
     enable_status_query : {FALSE}]

InitServe ==
    /\ run_mode = "serve"
    /\ lights \in {{"L1"}, Lights}
    /\ missing = {}
    /\ args = DefaultArgs
    /\ config \in ServeConfigs
    /\ InitCommon

\* The locals of a send_command_adaptive call that is over
EngineIdle ==
    /\ pending' = {}
    /\ failures' = <<>>
    /\ retry_next' = {}
    /\ ready' = {}
    /\ attempt' = 0

\* async_main hands over to run_serve_mode, which awaits connect_targets
\* (lines 1838-1840, 1868-1869, 1692, 1309-1315)
ServeStartup ==
    /\ pc = "start"
    /\ run_mode = "serve"
    /\ IF lights = {}
       THEN /\ rc' = 1
            /\ pc' = "exit"
            /\ UNCHANGED <<phase, tstate>>
       ELSE /\ tstate' = Gather(ToConnect(lights))
            /\ phase' = "connect"
            /\ pc' = "serve_connect"
            /\ UNCHANGED rc
    /\ UNCHANGED <<inputs, discovery, calls, setup, serve, query, light, engine, client, linked, tries, idx,
                   plan, res, history, drops>>

\* connect_targets returned to run_serve_mode (lines 1316-1321, 1693-1700)
ServeConnectJoin ==
    /\ pc = "serve_connect"
    /\ GatherComplete
    /\ exit_code' = IF \E f \in Lights : tstate[f] = "done" /\ ~res[f].ok
                    THEN 2 ELSE 0
    /\ IF ReadySet(lights) = {}
       THEN /\ rc' = 2
            /\ pc' = "exit"
       ELSE /\ pc' = "prompt"
            /\ UNCHANGED rc
    /\ phase' = "none"
    /\ IdleTasks
    /\ UNCHANGED <<inputs, discovery, calls, setup, verbs, query, light, engine, client, linked, history,
                   drops>>

\* The finally block of run_serve_mode (lines 1771-1778), then main
\* (lines 2092-2094).  The loop was left by a return ("return"), by a
\* KeyboardInterrupt ("interrupt"), or by an exception that no handler of
\* main catches ("exception"): the interpreter then ends with status 1.
ServeFinally(intr) ==
    /\ IF DrainSet(lights) # {}
       THEN /\ tstate' = Gather(DrainSet(lights))
            /\ phase' = "drain"
            /\ pc' = "serve_drain"
            /\ rc' = IF intr = "exception" THEN 1 ELSE rc
       ELSE /\ tstate' = [f \in Lights |-> "idle"]
            /\ phase' = "none"
            /\ pc' = "exit"
            /\ rc' = IF intr = "exception" THEN 1
                     ELSE IF intr = "interrupt" THEN 130 ELSE exit_code
    /\ tries' = [f \in Lights |-> 0]
    /\ idx' = [f \in Lights |-> 0]
    /\ plan' = [f \in Lights |-> <<>>]
    /\ res' = [f \in Lights |-> NoResult]

\* input() raised EOFError (lines 1713-1714)
ServeEof ==
    /\ pc = "prompt"
    /\ ServeFinally("return")
    /\ UNCHANGED <<inputs, discovery, calls, setup, serve, query, light, engine, client, linked, history,
                   drops>>

\* input() returned a line: one iteration of the loop up to its next await
\* (lines 1716-1757)
ServeLine(line) ==
    /\ pc = "prompt"
    /\ verbs < MaxVerbs
    /\ verbs' = verbs + 1
    /\ LET command == Strip(line)
           lower == Lower(command)
           built == build_serve_command(command, args)
           target_lights == select_session_lights(lights, built.val.target_addresses)
       IN  IF command = <<>>
           THEN UNCHANGED <<base_command, per_light_commands, targets, pc, phase,
                            engine, tasks, history, rc>>
           ELSE IF lower \in {<<"e","x","i","t">>, <<"q","u","i","t">>}
           THEN /\ ServeFinally("return")
                /\ UNCHANGED <<base_command, per_light_commands, targets, engine,
                               history>>
           ELSE IF lower \notin {<<"h","e","l","p">>, <<"?">>}
                   /\ built.err = "ValueError"
           THEN /\ ServeFinally("exception")
                /\ UNCHANGED <<base_command, per_light_commands, targets, engine,
                               history>>
           ELSE IF lower \in {<<"h","e","l","p">>, <<"?">>} \/ ~built.ok
           THEN UNCHANGED <<base_command, per_light_commands, targets, pc, phase,
                            engine, tasks, history, rc>>
           ELSE IF target_lights = {}
           THEN UNCHANGED <<base_command, per_light_commands, targets, pc, phase,
                            engine, tasks, history, rc>>
           ELSE /\ base_command' = built.val.base_command
                /\ per_light_commands' = built.val.per_light_commands
                /\ targets' = target_lights
                /\ StartAdaptive(target_lights)
                /\ pc' = "pass"
                /\ sent' = [f \in Lights |-> <<>>]
                /\ delivered' = [f \in Lights |-> FALSE]
                /\ rejected' = [f \in Lights |-> 0]
                /\ last_ok' = [f \in Lights |-> "none"]
                /\ UNCHANGED <<phase, tasks, opened, disc_attempted, interrupted, rc>>
    /\ UNCHANGED <<discovery, calls, setup, run_mode, lights, missing, args, config, exit_code, query, light,
                   client, linked, drops>>

\* send_command_adaptive returned to the loop (lines 1759-1770)
ServeAfterSend ==
    /\ pc = "pass"
    /\ run_mode = "serve"
    /\ attempt > config.passes \/ pending = {}
    /\ exit_code' = IF DOMAIN failures # {} THEN 2 ELSE exit_code
    /\ EngineIdle
    /\ pc' = "prompt"
    /\ UNCHANGED <<inputs, discovery, calls, setup, verbs, query, light, phase, client, linked, tasks,
                   history, drops, rc>>

\* KeyboardInterrupt while run_serve_mode awaits: the main task is cancelled
\* at its await.  Inside the loop the finally block runs; during the first
\* connect_targets (line 1692) no handler is in place.
ServeInterrupt ==
    /\ run_mode = "serve"
    /\ pc \in {"serve_connect", "prompt", "gather"}
    /\ interrupted' = TRUE
    /\ IF pc = "serve_connect"
       THEN /\ rc' = 130
            /\ pc' = "exit"
            /\ phase' = "none"
            /\ IdleTasks
       ELSE ServeFinally("interrupt")
    /\ EngineIdle
    /\ sent' = [f \in Lights |-> <<>>]
    /\ delivered' = [f \in Lights |-> FALSE]
    /\ rejected' = [f \in Lights |-> 0]
    /\ last_ok' = [f \in Lights |-> "none"]
    /\ UNCHANGED <<inputs, discovery, calls, setup, serve, query, light, client, linked, opened,
                   disc_attempted, drops>>

\* The drain of the finally block has gathered every task (lines 1774-1778)
ServeDrainJoin ==
    /\ pc = "serve_drain"
    /\ GatherComplete
    /\ rc' = IF interrupted THEN 130 ELSE IF rc = 1 THEN 1 ELSE exit_code
    /\ pc' = "exit"
    /\ phase' = "none"
    /\ IdleTasks
    /\ UNCHANGED <<inputs, discovery, calls, setup, serve, query, light, engine, client, linked, history,
                   drops>>

NextServe ==
    \/ ServeStartup
    \/ ServeConnectJoin
    \/ ServeEof
    \/ \E line \in ServeLines : ServeLine(line)
    \/ ServeAfterSend
    \/ ServeInterrupt
    \/ ServeDrainJoin
    \/ PassBegin
    \/ ConnectJoin
    \/ SendJoin
    \/ \E f \in Lights : ConnectStart(f)
    \/ \E f \in Lights : ConnectOk(f)
    \/ \E f \in Lights : ConnectFail(f)
    \/ \E f \in Lights : SendStart(f)
    \/ \E f \in Lights : WriteOk(f)
    \/ \E f \in Lights : WriteFail(f)
    \/ \E f \in Lights : SleepReturn(f)
    \/ \E f \in Lights : DisconnectStart(f)
    \/ \E f \in Lights : DisconnectReturn(f)
    \/ \E f \in Lights : LinkDrop(f)

SpecServe == InitServe /\ [][NextServe]_vars

\* ------------------------------------------------------------------------
\* Discovery: discover_devices / discover_with_retries
\* ------------------------------------------------------------------------

MaxScanAttempts == 2

MaxSightings == 2

ACCEPTED_NAME_PREFIXES ==
    << <<"N","E","E","W","E","R">>, <<"N","W","-">>, <<"S","L">>, <<"N","W","R">> >>

is_neewer_device(name) ==
    /\ name # <<>>
    /\ \E i \in 1..Len(ACCEPTED_NAME_PREFIXES) :
           StartsWith(Upper(name), ACCEPTED_NAME_PREFIXES[i])

\* Whether discover_devices takes a sighting (lines 994-998)
Admissible(s, target_addresses) ==
    IF target_addresses # <<>> THEN s.address \in target_addresses[1]
    ELSE is_neewer_device(s.name)

\* The loop of discover_devices over the sightings of one scan, in the order
\* the scanner reports them (lines 990-1015).  A descriptor is modelled by its
\* rssi; the other fields follow from the device.
discover_devices(sightings, target_addresses) ==
    LET RECURSIVE loop(_, _)
        loop(i, discovered) ==
            IF i > Len(sightings) THEN discovered
            ELSE LET s == sightings[i]
                 IN  IF ~Admissible(s, target_addresses) THEN loop(i + 1, discovered)
                     ELSE IF s.address \notin DOMAIN discovered
                             \/ s.rssi > discovered[s.address]
                     THEN loop(i + 1,
                               [a \in DOMAIN discovered \cup {s.address} |->
                                   IF a = s.address THEN s.rssi ELSE discovered[a]])
                     ELSE loop(i + 1, discovered)
    IN  loop(1, <<>>)

\* Advertisements a scan can report: the two fixtures at two signal levels,
\* L2 also without a name, and a device that is not a Neewer light
Sightings ==
    [address : {"L1"}, name : {<<"S","L","9","0">>}, rssi : {-80, -40}]
    \cup [address : {"L2"}, name : {<<"n","w","-","6","6","0">>}, rssi : {-80, -40}]
    \cup [address : {"L2"}, name : {<<>>}, rssi : {-60}]
    \cup [address : {"X"}, name : {<<"M","i">>}, rssi : {-50}]

ScanResults == UNION {[1..n -> Sightings] : n \in 0..MaxSightings}

\* Mutant of ScanLoopBreaks: open discovery ignores collect_all
ScanLoopBreaksOnAny(coll) ==
    IF discover_targets # <<>>
    THEN discover_targets[1] \subseteq DOMAIN coll
    ELSE DOMAIN coll # {}

\* The break conditions of the retry loop (lines 1036-1044)
ScanLoopBreaks(coll) ==
    IF discover_targets # <<>>
    THEN discover_targets[1] \subseteq DOMAIN coll
    ELSE DOMAIN coll # {} /\ ~collect_all

\* One iteration of the retry loop: a scan, the update of collected, and
\* the decision to go on (lines 1028-1044).  strongest records the strongest
\* admissible sighting of each address over all scans.
DiscoverScan(sightings) ==
    /\ dpc = "scan"
    /\ LET found == discover_devices(sightings, discover_targets)
           coll == [a \in DOMAIN collected \cup DOMAIN found |->
                       IF a \in DOMAIN found THEN found[a] ELSE collected[a]]
           heard(a) == {sightings[i].rssi : i \in
                          {j \in 1..Len(sightings) :
                              /\ sightings[j].address = a
                              /\ Admissible(sightings[j], discover_targets)}}
                       \cup (IF a \in DOMAIN strongest THEN {strongest[a]} ELSE {})
       IN  /\ scan_attempt' = scan_attempt + 1
           /\ collected' = coll
           /\ strongest' = [a \in DOMAIN coll |->
                               CHOOSE r \in heard(a) : \A q \in heard(a) : q <= r]
           /\ dpc' = IF ScanLoopBreaks(coll) \/ scan_attempt + 1 >= config.scan_attempts
                     THEN "return" ELSE "scan"
    /\ UNCHANGED <<inputs, discover_targets, collect_all, calls, setup, serve, query, light, pc,
                   phase, engine, client, linked, tasks, history, drops, rc>>

\* discover_with_retries returns the descriptors and the missing targets
\* (lines 1046-1048)
DiscoverReturn ==
    /\ dpc = "return"
    /\ dpc' = "done"
    /\ lights' = DOMAIN collected
    /\ missing' = IF discover_targets # <<>>
                  THEN discover_targets[1] \ DOMAIN collected ELSE {}
    /\ UNCHANGED <<setup, run_mode, args, config, base_command, per_light_commands, targets,
                   discover_targets, collect_all, scan_attempt, collected, strongest,
                   calls, serve, query, light, pc, phase, engine, client, linked, tasks,
                   history, drops, rc>>

\* discover_with_retries is entered (lines 1025-1026); scan_attempts is at
\* least 1 (line 1469)
InitDiscover ==
    /\ run_mode = "discover"
    /\ lights = {}
    /\ missing = {}
    /\ args = DefaultArgs
    /\ config \in [passes : {1}, connect_retries : {1}, write_retries : {1},
                   parallel : {1}, settle_delay : {0}, power_with_response : {TRUE},
                   enable_status_query : {FALSE}, scan_attempts : 1..MaxScanAttempts]
    /\ light = [f \in Lights |-> DiscoveredLight(f)]
    /\ InitEngine
    /\ client = [f \in Lights |-> "None"]
    /\ linked = [f \in Lights |-> FALSE]
    /\ InitQuery
    /\ InitSetup
    /\ discover_targets \in {<<>>} \cup {<<S>> : S \in (SUBSET Lights) \ {{}}}
    /\ collect_all \in BOOLEAN
    /\ scan_attempt = 0
    /\ collected = <<>>
    /\ strongest = <<>>
    /\ dpc = "scan"
    /\ calls = [f \in Lights |-> 0]

NextDiscover ==
    \/ \E sightings \in ScanResults : DiscoverScan(sightings)
    \/ DiscoverReturn

SpecDiscover == InitDiscover /\ [][NextDiscover]_vars

\* ------------------------------------------------------------------------
\* Specification of repeated disconnect_light calls on the same fixtures
\* ------------------------------------------------------------------------

MaxCalls == 2

\* Mutant of DisconnectRaise: no finally clause, the handle stays in the slot
DisconnectRaiseKeepsSlot(f) ==
    /\ tstate[f] = "disconnecting"
    /\ run_mode = "disconnect"
    /\ tstate' = [tstate EXCEPT ![f] = "done"]
    /\ UNCHANGED <<inputs, discovery, calls, setup, serve, query, light, pc, phase, engine,
                   client, linked, tries, idx, plan, res, history, drops, rc>>

\* client.disconnect() raised: the error is logged and the slot is cleared
\* (lines 1134-1137); the transport did not report the link as closed
DisconnectRaise(f) ==
    /\ tstate[f] = "disconnecting"
    /\ run_mode = "disconnect"
    /\ client' = [client EXCEPT ![f] = "None"]
    /\ tstate' = [tstate EXCEPT ![f] = "done"]
    /\ UNCHANGED <<inputs, discovery, calls, setup, serve, query, light, pc, phase, engine,
                   linked, tries, idx, plan, res, history, drops, rc>>

\* run_bounded(lights, disconnect_light) is called for every fixture
DisconnectAll ==
    /\ pc = "start"
    /\ run_mode = "disconnect"
    /\ pc' = "drain"
    /\ phase' = "drain"
    /\ tstate' = Gather(lights)
    /\ UNCHANGED <<inputs, discovery, calls, setup, serve, query, light, engine, client, linked,
                   tries, idx, plan, res, history, drops, rc>>

\* disconnect_light returned for f and is called on f again
DisconnectAgain(f) ==
    /\ pc = "drain"
    /\ run_mode = "disconnect"
    /\ tstate[f] = "done"
    /\ calls[f] + 1 < MaxCalls
    /\ calls' = [calls EXCEPT ![f] = calls[f] + 1]
    /\ tstate' = [tstate EXCEPT ![f] = "waiting"]
    /\ UNCHANGED <<inputs, discovery, setup, serve, query, light, pc, phase, engine, client,
                   linked, tries, idx, plan, res, history, drops, rc>>

InitDisconnect ==
    /\ run_mode = "disconnect"
    /\ lights = Lights
    /\ missing = {}
    /\ args = DefaultArgs
    /\ config \in [passes : {1}, connect_retries : {1}, write_retries : {1},
                   parallel : 1..MaxParallel, settle_delay : {0},
                   power_with_response : {TRUE}, enable_status_query : {FALSE}]
    /\ light = [f \in Lights |-> DiscoveredLight(f)]
    /\ InitEngine
    /\ \E s \in [Lights -> SessionStates] :
           /\ client = [f \in Lights |-> s[f][1]]
           /\ linked = [f \in Lights |-> s[f][2]]
    /\ InitQuery
    /\ InitSetup
    /\ InitDiscovery

NextDisconnect ==
    \/ DisconnectAll
    \/ \E f \in Lights : DisconnectStart(f)
    \/ \E f \in Lights : DisconnectReturn(f)
    \/ \E f \in Lights : DisconnectRaise(f)
    \/ \E f \in Lights : DisconnectAgain(f)

SpecDisconnect == InitDisconnect /\ [][NextDisconnect]_vars

\* ------------------------------------------------------------------------
\* Specification of connect_light (lines 1086-1120), one call per fixture,
\* every await a step of its own
\* ------------------------------------------------------------------------

MaxAttempts == 2

\* connect_light is called on every fixture of the run; a fixture may hold the
\* session of an earlier pass
InitConnect ==
    /\ run_mode = "connect"
    /\ lights \in SUBSET Lights \ {{}}
    /\ missing = {}
    /\ args = DefaultArgs
    /\ config \in [passes : {1}, connect_retries : 1..MaxAttempts,
                   write_retries : {1}, parallel : {MaxParallel}, settle_delay : {0},
                   power_with_response : {TRUE}, enable_status_query : {FALSE}]
    /\ light = [f \in Lights |-> DiscoveredLight(f)]
    /\ InitEngine
    /\ \E s \in [Lights -> SessionStates] :
           /\ client = [f \in Lights |-> s[f][1]]
           /\ linked = [f \in Lights |-> s[f][2]]
    /\ InitQuery
    /\ InitDiscovery
    /\ untagged = <<>>
    /\ tagged = <<>>
    /\ selector = <<>>
    /\ groups = <<>>
    /\ resolved = NoResult
    /\ argv = <<>>
    /\ config_data = <<>>
    /\ passed = <<>>
    /\ opc = "idle"
    /\ cpc = [f \in Lights |-> IF f \in lights THEN "call" ELSE "idle"]
    /\ handle = [f \in Lights |-> "None"]
    /\ last_error = [f \in Lights |-> ""]
    /\ conn_ops = [f \in Lights |-> <<>>]
    /\ InitBatch
    /\ InitWriting

\* The variables a step of connect_light leaves alone
ConnectFrame ==
    UNCHANGED <<inputs, discovery, calls, untagged, tagged, selector, groups, resolved,
                argv, config_data, passed, opc, batch, writing, serve, query, pc, phase, engine,
                tstate, idx, plan, history, drops, rc>>

\* Lines 1087-1092: last_error = "" and the loop starts with attempt 1.
\* range(1, connect_retries + 1) is empty when connect_retries < 1.
ConnectCall(f) ==
    /\ cpc[f] = "call"
    /\ last_error' = [last_error EXCEPT ![f] = ""]
    /\ IF config.connect_retries >= 1
       THEN /\ tries' = [tries EXCEPT ![f] = 1]
            /\ cpc' = [cpc EXCEPT ![f] = "try"]
            /\ UNCHANGED res
       ELSE /\ res' = [res EXCEPT ![f] = Result(FALSE, "")]
            /\ cpc' = [cpc EXCEPT ![f] = "done"]
            /\ UNCHANGED tries
    /\ UNCHANGED <<light, client, linked, handle, conn_ops>>
    /\ ConnectFrame

\* Lines 1093-1104: client = None, then BleakClient(...) is constructed and
\* client.connect() is awaited; or the constructor raises and the handler
\* (lines 1111-1118) finds client None and goes to the back-off sleep
AttemptBegin(f) ==
    /\ cpc[f] = "try"
    /\ \/ /\ handle' = [handle EXCEPT ![f] = "client"]
          /\ conn_ops' = [conn_ops EXCEPT ![f] = Append(@, "connect")]
          /\ cpc' = [cpc EXCEPT ![f] = "connect"]
          /\ UNCHANGED last_error
       \/ /\ handle' = [handle EXCEPT ![f] = "None"]
          /\ last_error' = [last_error EXCEPT ![f] = "client error"]
          /\ conn_ops' = [conn_ops EXCEPT ![f] = @ \o <<"no client", "sleep">>]
          /\ cpc' = [cpc EXCEPT ![f] = "backoff"]
    /\ UNCHANGED <<light, client, linked, tries, res>>
    /\ ConnectFrame

\* Lines 1111-1116 after an attempt with a handle failed: last_error is set and
\* client.disconnect() is awaited
AttemptFailed(f, outcome, err) ==
    /\ last_error' = [last_error EXCEPT ![f] = err]
    /\ conn_ops' = [conn_ops EXCEPT ![f] = @ \o <<outcome, "disconnect">>]
    /\ cpc' = [cpc EXCEPT ![f] = "cleanup"]
    /\ UNCHANGED <<light, client, linked, handle, tries, res>>

\* Mutant of ConnectReturns: the handle is stored whatever is_connected says
ConnectReturnsUnchecked(f, connected) ==
    /\ cpc[f] = "connect"
    /\ client' = [client EXCEPT ![f] = handle[f]]
    /\ linked' = [linked EXCEPT ![f] = connected]
    /\ light' = [light EXCEPT ![f].hw_mac = HwMacAfterConnect(light[f])]
    /\ res' = [res EXCEPT ![f] = Result(TRUE, "")]
    /\ conn_ops' = [conn_ops EXCEPT ![f] =
                        Append(@, IF connected THEN "connected" ELSE "unconnected")]
    /\ cpc' = [cpc EXCEPT ![f] = "done"]
    /\ UNCHANGED <<handle, last_error, tries>>
    /\ ConnectFrame

\* client.connect() returned (line 1104); lines 1105-1110 store the session
\* and return when the client reports connected, else RuntimeError is raised
ConnectReturns(f, connected) ==
    /\ cpc[f] = "connect"
    /\ IF connected
       THEN /\ client' = [client EXCEPT ![f] = handle[f]]
            /\ linked' = [linked EXCEPT ![f] = TRUE]
            /\ light' = [light EXCEPT ![f].hw_mac = HwMacAfterConnect(light[f])]
            /\ res' = [res EXCEPT ![f] = Result(TRUE, "")]
            /\ conn_ops' = [conn_ops EXCEPT ![f] = Append(@, "connected")]
            /\ cpc' = [cpc EXCEPT ![f] = "done"]
            /\ UNCHANGED <<handle, last_error, tries>>
       ELSE AttemptFailed(f, "unconnected",
                          "connect() completed but client is not connected")
    /\ ConnectFrame

\* client.connect() raised an Exception (line 1111)
ConnectRaises(f) ==
    /\ cpc[f] = "connect"
    /\ AttemptFailed(f, "raised", "connect error")
    /\ ConnectFrame

\* client.disconnect() of line 1115 returned or raised (lines 1116-1117:
\* the exception is dropped); asyncio.sleep of line 1118 is awaited
CleanupReturns(f) ==
    /\ cpc[f] = "cleanup"
    /\ conn_ops' = [conn_ops EXCEPT ![f] = Append(@, "sleep")]
    /\ cpc' = [cpc EXCEPT ![f] = "backoff"]
    /\ UNCHANGED <<light, client, linked, handle, last_error, tries, res>>
    /\ ConnectFrame

\* asyncio.sleep returned: the next attempt, or line 1120 after the last one
BackoffReturns(f) ==
    /\ cpc[f] = "backoff"
    /\ IF tries[f] < config.connect_retries
       THEN /\ tries' = [tries EXCEPT ![f] = tries[f] + 1]
            /\ cpc' = [cpc EXCEPT ![f] = "try"]
            /\ UNCHANGED res
       ELSE /\ res' = [res EXCEPT ![f] = Result(FALSE, last_error[f])]
            /\ cpc' = [cpc EXCEPT ![f] = "done"]
            /\ UNCHANGED tries
    /\ UNCHANGED <<light, client, linked, handle, last_error, conn_ops>>
    /\ ConnectFrame

\* The task is cancelled while it awaits connect(), disconnect() or sleep():
\* asyncio.CancelledError is raised at the await.  It is a BaseException, so
\* neither `except Exception` (lines 1111, 1116) handles it, and connect_light
\* has no finally clause: the call ends with the error
ConnectCancelled(f) ==
    /\ cpc[f] \in {"connect", "cleanup", "backoff"}
    /\ conn_ops' = [conn_ops EXCEPT ![f] = Append(@, "cancelled")]
    /\ cpc' = [cpc EXCEPT ![f] = "cancelled"]
    /\ UNCHANGED <<light, client, linked, handle, last_error, tries, res>>
    /\ ConnectFrame

NextConnect ==
    \/ \E f \in Lights : ConnectCall(f)
    \/ \E f \in Lights : AttemptBegin(f)
    \/ \E f \in Lights, connected \in BOOLEAN : ConnectReturns(f, connected)
    \/ \E f \in Lights : ConnectRaises(f)
    \/ \E f \in Lights : CleanupReturns(f)
    \/ \E f \in Lights : BackoffReturns(f)
    \/ \E f \in Lights : ConnectCancelled(f)

SpecConnect == InitConnect /\ [][NextConnect]_vars

\* ------------------------------------------------------------------------
\* Specification of send_command_adaptive (lines 1324-1373) and
\* query_status_adaptive (lines 1376-1427) over a sequence of lights that may
\* list an address more than once: one run_bounded task per item, each
\* operation (connect_light, send_command_once, query_light_status_once) a
\* task that starts and ends
\* ------------------------------------------------------------------------

MaxItems == 3

\* The input sequences, by address
ItemSeqs == UNION {[1..n -> Lights] : n \in 1..MaxItems}

RECURSIVE DictKeys(_, _)
\* The keys of {light.address: light for light in seq}, in dict order
DictKeys(seq, acc) ==
    IF seq = <<>> THEN acc
    ELSE DictKeys(Tail(seq),
                  IF \E i \in 1..Len(acc) : acc[i] = Head(seq) THEN acc
                  ELSE Append(acc, Head(seq)))

\* Mutant of PendingOf: one entry per item of the input
PendingKeepsAll(seq) == seq

\* pending = {light.address: light for light in lights} (lines 1330, 1380)
PendingOf(seq) == DictKeys(seq, <<>>)

\* The addresses of a set as a list, in the order of the input
InOrder(S) == SelectSeq(PendingOf(light_seq), LAMBDA a : a \in S)

\* run_bounded(addrs, ...): one task per item, none started yet (line 1151)
NewJobs(addrs, op) ==
    [i \in 1..Len(addrs) |-> [addr |-> addrs[i], op |-> op, st |-> "waiting",
                              ok |-> FALSE, err |-> ""]]

\* The operation of the second gather of a pass (lines 1348-1353, 1402-1406)
SecondOp == IF run_mode = "send adaptive" THEN "write" ELSE "query"

InitAdaptive ==
    /\ run_mode \in {"send adaptive", "status adaptive"}
    /\ lights = Lights
    /\ missing = {}
    /\ args = DefaultArgs
    /\ config \in [passes : 1..MaxPasses, connect_retries : {1}, write_retries : {1},
                   parallel : 1..MaxParallel, settle_delay : {0},
                   power_with_response : {TRUE}, enable_status_query : {TRUE}]
    /\ light = [f \in Lights |-> DiscoveredLight(f)]
    /\ InitEngine
    /\ client = [f \in Lights |-> "None"]
    /\ linked = [f \in Lights |-> FALSE]
    /\ InitQuery
    /\ InitDiscovery
    /\ untagged = <<>>
    /\ tagged = <<>>
    /\ selector = <<>>
    /\ groups = <<>>
    /\ resolved = NoResult
    /\ argv = <<>>
    /\ config_data = <<>>
    /\ passed = <<>>
    /\ opc = "idle"
    /\ InitAttempt
    /\ light_seq \in ItemSeqs
    /\ todo = <<>>
    /\ jobs = <<>>
    /\ InitWriting

\* The variables a step of the adaptive engines leaves alone
BatchFrame ==
    UNCHANGED <<inputs, discovery, calls, untagged, tagged, selector, groups, resolved,
                argv, config_data, passed, opc, attempting, light_seq, writing,
                serve, query, light,
                pending, ready, tasks, history, drops, rc>>

\* Lines 1330-1331, 1380-1382
AdaptiveCall ==
    /\ pc = "start"
    /\ todo' = PendingOf(light_seq)
    /\ failures' = <<>>
    /\ attempt' = 1
    /\ pc' = "pass"
    /\ UNCHANGED <<jobs, phase, retry_next, client, linked>>
    /\ BatchFrame

\* A pass begins (lines 1333-1338) and connect_targets gathers connect_light
\* over the targets that are not connected (lines 1309-1315)
BatchPassBegin ==
    /\ pc = "pass"
    /\ attempt <= config.passes
    /\ todo # <<>>
    /\ jobs' = NewJobs(SelectSeq(todo, LAMBDA a : ~is_light_connected(a)), "connect")
    /\ phase' = "connect"
    /\ pc' = "gather"
    /\ UNCHANGED <<todo, attempt, failures, retry_next, client, linked>>
    /\ BatchFrame

Running == {i \in 1..Len(jobs) : jobs[i].st = "running"}

\* A task enters the semaphore and its operation begins (lines 1147-1149)
JobStart(i) ==
    /\ pc = "gather"
    /\ jobs[i].st = "waiting"
    /\ Cardinality(Running) < Max(1, config.parallel)
    /\ jobs' = [jobs EXCEPT ![i].st = "running"]
    /\ UNCHANGED <<todo, attempt, failures, retry_next, phase, pc, client, linked>>
    /\ BatchFrame

\* The operation of a task returns: connect_light with a session or an error,
\* send_command_once and query_light_status_once with success or an error,
\* with or without the link, and the query also with "not supported"
JobEnd(i, ok, err, drop) ==
    /\ pc = "gather"
    /\ jobs[i].st = "running"
    /\ err = "not supported" => jobs[i].op = "query"
    /\ jobs' = [jobs EXCEPT ![i].st = "done", ![i].ok = ok, ![i].err = IF ok THEN "" ELSE err]
    /\ IF jobs[i].op = "connect"
       THEN /\ client' = IF ok THEN [client EXCEPT ![jobs[i].addr] = "client"] ELSE client
            /\ linked' = IF ok THEN [linked EXCEPT ![jobs[i].addr] = TRUE] ELSE linked
       ELSE /\ linked' = IF ~ok /\ drop THEN [linked EXCEPT ![jobs[i].addr] = FALSE]
                         ELSE linked
            /\ UNCHANGED client
    /\ UNCHANGED <<todo, attempt, failures, retry_next, phase, pc>>
    /\ BatchFrame

JobsDone == \A i \in 1..Len(jobs) : jobs[i].st = "done"

RECURSIVE ReadResults(_, _)
\* The failure map after the results of a gather were read in order: a failed
\* item sets the entry of its address (lines 1318-1319, 1340-1341, 1367-1368,
\* 1422) and a successful send or query removes it (lines 1358, 1411)
ReadResults(i, acc) ==
    IF i > Len(jobs) THEN acc
    ELSE LET a == jobs[i].addr
         IN  ReadResults(i + 1,
                 IF ~jobs[i].ok
                 THEN [x \in (DOMAIN acc) \cup {a} |-> IF x = a THEN jobs[i].err ELSE acc[x]]
                 ELSE IF phase = "connect" THEN acc
                 ELSE [x \in (DOMAIN acc) \ {a} |-> acc[x]])

\* The gather of connect_light returned (lines 1316-1321, 1340-1346): the
\* second gather runs over the targets that are connected, if there are any
BatchConnectJoin ==
    /\ pc = "gather"
    /\ phase = "connect"
    /\ JobsDone
    /\ LET cf == {jobs[i].addr : i \in {j \in 1..Len(jobs) : ~jobs[j].ok}}
           rdy == SelectSeq(todo, LAMBDA a : is_light_connected(a))
       IN  /\ failures' = ReadResults(1, failures)
           /\ IF rdy # <<>>
              THEN /\ retry_next' = cf
                   /\ jobs' = NewJobs(rdy, SecondOp)
                   /\ phase' = "send"
                   /\ UNCHANGED <<todo, attempt, pc>>
              ELSE /\ todo' = InOrder(cf)
                   /\ retry_next' = {}
                   /\ jobs' = <<>>
                   /\ attempt' = attempt + 1
                   /\ phase' = "none"
                   /\ pc' = "pass"
    /\ UNCHANGED <<client, linked>>
    /\ BatchFrame

\* Mutant of BatchSendJoin: every failed target is tried again
BatchSendJoinRetriesAll ==
    /\ pc = "gather"
    /\ phase = "send"
    /\ JobsDone
    /\ LET again == {jobs[i].addr : i \in {j \in 1..Len(jobs) : ~jobs[j].ok}}
       IN  /\ failures' = ReadResults(1, failures)
           /\ todo' = InOrder(retry_next \cup again)
    /\ retry_next' = {}
    /\ jobs' = <<>>
    /\ attempt' = attempt + 1
    /\ phase' = "none"
    /\ pc' = "pass"
    /\ UNCHANGED <<client, linked>>
    /\ BatchFrame

\* The second gather returned (lines 1356-1371, 1409-1425): a failed target is
\* tried again in the next pass, but a status query answered "not supported"
BatchSendJoin ==
    /\ pc = "gather"
    /\ phase = "send"
    /\ JobsDone
    /\ LET again == {jobs[i].addr : i \in {j \in 1..Len(jobs) :
                         ~jobs[j].ok /\ jobs[j].err # "not supported"}}
       IN  /\ failures' = ReadResults(1, failures)
           /\ todo' = InOrder(retry_next \cup again)
    /\ retry_next' = {}
    /\ jobs' = <<>>
    /\ attempt' = attempt + 1
    /\ phase' = "none"
    /\ pc' = "pass"
    /\ UNCHANGED <<client, linked>>
    /\ BatchFrame

\* Lines 1332-1334 and 1373: the loop ends
AdaptiveReturn ==
    /\ pc = "pass"
    /\ attempt > config.passes \/ todo = <<>>
    /\ pc' = "exit"
    /\ UNCHANGED <<todo, jobs, attempt, failures, retry_next, phase, client, linked>>
    /\ BatchFrame

NextAdaptive ==
    \/ AdaptiveCall
    \/ BatchPassBegin
    \/ \E i \in 1..Len(jobs) : JobStart(i)
    \/ \E i \in 1..Len(jobs), ok \in BOOLEAN, drop \in BOOLEAN,
          err \in {"failed", "not supported"} : JobEnd(i, ok, err, drop)
    \/ BatchConnectJoin
    \/ BatchSendJoin
    \/ AdaptiveReturn

SpecAdaptive == InitAdaptive /\ [][NextAdaptive]_vars

\* ------------------------------------------------------------------------
\* The failures of a status query, from the call to the engine: one
\* query_light_status_once call with its two queries, or one
\* query_status_adaptive call whose queries end with a result
\* ------------------------------------------------------------------------

InitStatusFailures ==
    \/ InitQuerying
    \/ InitAdaptive /\ run_mode = "status adaptive"

\* The steps of both calls; the engine starts only in its own run
NextStatusFailures ==
    \/ NextQuery
    \/ run_mode = "status adaptive" /\ AdaptiveCall
    \/ BatchPassBegin
    \/ \E i \in 1..Len(jobs) : JobStart(i)
    \/ \E i \in 1..Len(jobs), ok \in BOOLEAN, drop \in BOOLEAN,
          err \in {"failed", "not supported"} : JobEnd(i, ok, err, drop)
    \/ BatchConnectJoin
    \/ BatchSendJoin
    \/ AdaptiveReturn

SpecStatusFailures == InitStatusFailures /\ [][NextStatusFailures]_vars

\* ------------------------------------------------------------------------
\* Specification of write_payload (lines 1154-1175), one call on one frame,
\* every await a step of its own
\* ------------------------------------------------------------------------

MaxWriteAttempts == 3

\* The error texts a failing write_gatt_char raises with
WriteErrors == {"busy", "gone"}

\* One frame of a plan is written on the session of L1; retries is
\* config.write_retries, which build_config keeps at 1 or more (line 1472)
InitWrite ==
    /\ run_mode = "write"
    /\ lights = {"L1"}
    /\ missing = {}
    /\ args = DefaultArgs
    /\ config = [passes |-> 1, connect_retries |-> 1, write_retries |-> 1,
                 parallel |-> 1, settle_delay |-> 0, power_with_response |-> TRUE,
                 enable_status_query |-> FALSE]
    /\ light = [f \in Lights |-> DiscoveredLight(f)]
    /\ InitEngine
    /\ client = [f \in Lights |-> IF f = "L1" THEN "client" ELSE "None"]
    /\ linked = [f \in Lights |-> f = "L1"]
    /\ InitQuery
    /\ InitDiscovery
    /\ untagged = <<>>
    /\ tagged = <<>>
    /\ selector = <<>>
    /\ groups = <<>>
    /\ resolved = NoResult
    /\ argv = <<>>
    /\ config_data = <<>>
    /\ passed = <<>>
    /\ opc = "idle"
    /\ InitAttempt
    /\ InitBatch
    /\ wr_pc = "call"
    /\ wr_frame \in [payload : {set_power_bytestring(TRUE), set_power_bytestring(FALSE)},
                     response : BOOLEAN]
    /\ wr_retries \in 1..MaxWriteAttempts
    /\ wr_attempt = 0
    /\ wr_last_error = ""
    /\ wr_ops = <<>>
    /\ wr_result = NoResult

\* The variables a step of write_payload leaves alone
WriteFrame ==
    UNCHANGED <<inputs, discovery, calls, untagged, tagged, selector, groups, resolved,
                argv, config_data, passed, opc, attempting, batch, serve, query, light,
                pc, phase, engine, client, linked, tasks, history, drops, rc,
                wr_frame, wr_retries>>

\* The history entry of write_gatt_char being awaited (line 1164)
WriteAwaited == [op |-> "write", payload |-> wr_frame.payload, response |-> wr_frame.response]

\* Lines 1161-1164: last_error = "" and the loop starts with attempt 1.
\* range(1, retries + 1) is empty when retries < 1.
WritePayloadCall ==
    /\ wr_pc = "call"
    /\ wr_last_error' = ""
    /\ IF wr_retries >= 1
       THEN /\ wr_attempt' = 1
            /\ wr_ops' = Append(wr_ops, WriteAwaited)
            /\ wr_pc' = "write"
            /\ UNCHANGED wr_result
       ELSE /\ wr_result' = Result(FALSE, "")
            /\ wr_pc' = "done"
            /\ UNCHANGED <<wr_attempt, wr_ops>>
    /\ WriteFrame

\* write_gatt_char returned: line 1165
WriteReturns ==
    /\ wr_pc = "write"
    /\ wr_ops' = Append(wr_ops, [op |-> "written"])
    /\ wr_result' = Result(TRUE, "")
    /\ wr_pc' = "done"
    /\ UNCHANGED <<wr_attempt, wr_last_error>>
    /\ WriteFrame

\* Mutant of WriteRaises: only the first error is kept
WriteRaisesKeepsFirst(err) ==
    /\ wr_pc = "write"
    /\ wr_last_error' = IF wr_last_error = "" THEN err ELSE wr_last_error
    /\ wr_ops' = wr_ops \o <<[op |-> "raised", err |-> err],
                             [op |-> "sleep", ms |-> Min(100 * wr_attempt, 500)]>>
    /\ wr_pc' = "backoff"
    /\ UNCHANGED <<wr_attempt, wr_result>>
    /\ WriteFrame

\* write_gatt_char raised: last_error is set and asyncio.sleep is awaited
\* (lines 1166-1174)
WriteRaises(err) ==
    /\ wr_pc = "write"
    /\ wr_last_error' = err
    /\ wr_ops' = wr_ops \o <<[op |-> "raised", err |-> err],
                             [op |-> "sleep", ms |-> Min(100 * wr_attempt, 500)]>>
    /\ wr_pc' = "backoff"
    /\ UNCHANGED <<wr_attempt, wr_result>>
    /\ WriteFrame

\* asyncio.sleep returned: the next attempt, or line 1175 after the last one
WriteBackoffReturns ==
    /\ wr_pc = "backoff"
    /\ IF wr_attempt < wr_retries
       THEN /\ wr_attempt' = wr_attempt + 1
            /\ wr_ops' = Append(wr_ops, WriteAwaited)
            /\ wr_pc' = "write"
            /\ UNCHANGED wr_result
       ELSE /\ wr_result' = Result(FALSE, wr_last_error)
            /\ wr_pc' = "done"
            /\ UNCHANGED <<wr_attempt, wr_ops>>
    /\ UNCHANGED wr_last_error
    /\ WriteFrame

NextWrite ==
    \/ WritePayloadCall
    \/ WriteReturns
    \/ \E err \in WriteErrors : WriteRaises(err)
    \/ WriteBackoffReturns

SpecWrite == InitWrite /\ [][NextWrite]_vars

\* ------------------------------------------------------------------------
\* Specifications of the configuration-layer functions: no fixture is
\* discovered and the engine never runs
\* ------------------------------------------------------------------------

InitNoRun ==
    /\ run_mode = "setup"
    /\ lights = {}
    /\ missing = {}
    /\ config = [passes |-> 1, connect_retries |-> 1, write_retries |-> 1,
                 parallel |-> 1, settle_delay |-> 0, power_with_response |-> TRUE,
                 enable_status_query |-> FALSE]
    /\ light = [f \in Lights |-> DiscoveredLight(f)]
    /\ InitEngine
    /\ client = [f \in Lights |-> "None"]
    /\ linked = [f \in Lights |-> FALSE]
    /\ InitQuery
    /\ InitDiscovery
    /\ InitAttempt
    /\ InitBatch
    /\ InitWriting

\* tag_checksum (lines 632-639) applied to one payload

MaxPayloadLen == 3

\* Bytes, and negative elements down to below -256
Payloads ==
    UNION {[1..n -> {-257, -256, -1, 0, 1, 135, 255}] : n \in 0..MaxPayloadLen}

InitChecksum ==
    /\ InitNoRun
    /\ args = DefaultArgs
    /\ untagged \in Payloads
    /\ tagged = <<>>
    /\ selector = <<>>
    /\ groups = <<>>
    /\ resolved = NoResult
    /\ argv = <<>>
    /\ config_data = <<>>
    /\ passed = <<>>
    /\ opc = "call"

TagChecksum ==
    /\ opc = "call"
    /\ run_mode = "setup"
    /\ untagged \in Payloads
    /\ tagged' = tag_checksum(untagged)
    /\ opc' = "done"
    /\ UNCHANGED <<inputs, discovery, calls, serve, query, light, pc, phase, engine,
                   client, linked, tasks, history, drops, rc, untagged, selector,
                   groups, resolved, argv, config_data, passed, attempting, batch, writing>>

SpecChecksum == InitChecksum /\ [][TagChecksum]_vars

\* selector_to_addresses (lines 367-382) applied to one selector

MaxSelectorItems == 2

\* Items of a selector: addresses in lower and upper case and with a blank,
\* an octet with a sign, five octets, a non-hex octet, octets of one and
\* three characters, known and unknown groups, an empty item and ALL
SelectorItems ==
    {<<"a","a",":","b","b",":","c","c",":","d","d",":","e","e",":","0","1">>,
     <<" ","A","A",":","B","B",":","C","C",":","D","D",":","E","E",":","0","2">>,
     <<"+","a",":","b","b",":","c","c",":","d","d",":","e","e",":","0","1">>,
     <<"a","a",":","b","b",":","c","c",":","d","d",":","e","e">>,
     <<"a","a",":","b","b",":","c","c",":","d","d",":","e","e",":","0","g">>,
     <<"a",":","b","b",":","c","c",":","d","d",":","e","e",":","0","0","1">>,
     <<"g","r","o","u","p",":","s","t","u","d","i","o">>,
     <<"G","R","O","U","P",":","k","e","y">>,
     <<"g","r","o","u","p",":","n","o","n","e">>,
     <<>>,
     <<"A","L","L">>}

RECURSIVE JoinComma(_)
\* ",".join(items)
JoinComma(items) ==
    IF Len(items) = 1 THEN items[1]
    ELSE items[1] \o <<",">> \o JoinComma(Tail(items))

Selectors ==
    {JoinComma(items) : items \in UNION {[1..n -> SelectorItems] : n \in 1..MaxSelectorItems}}
    \cup {<<"a","l","l">>, <<"*">>, <<" ">>}

\* The groups block of the configuration: empty, or two groups
GroupChoices ==
    {<<>>,
     [n \in {<<"s","t","u","d","i","o">>, <<"k","e","y">>} |->
        IF n = <<"s","t","u","d","i","o">>
        THEN {<<"A","A",":","A","A",":","A","A",":","A","A",":","A","A",":","A","A">>, <<"B","B",":","B","B",":","B","B",":","B","B",":","B","B",":","B","B">>}
        ELSE {<<"B","B",":","B","B",":","B","B",":","B","B",":","B","B",":","B","B">>, <<"A","A",":","B","B",":","C","C",":","D","D",":","E","E",":","0","2">>}]}

InitSelect ==
    /\ InitNoRun
    /\ args = DefaultArgs
    /\ untagged = <<>>
    /\ tagged = <<>>
    /\ selector \in Selectors
    /\ groups \in GroupChoices
    /\ resolved = NoResult
    /\ argv = <<>>
    /\ config_data = <<>>
    /\ passed = <<>>
    /\ opc = "call"

SelectorToAddresses ==
    /\ opc = "call"
    /\ run_mode = "setup"
    /\ selector \in Selectors
    /\ resolved' = selector_to_addresses(selector, groups)
    /\ opc' = "done"
    /\ UNCHANGED <<inputs, discovery, calls, serve, query, light, pc, phase, engine,
                   client, linked, tasks, history, drops, rc, untagged, tagged,
                   selector, groups, argv, config_data, passed, attempting, batch, writing>>

SpecSelect == InitSelect /\ [][SelectorToAddresses]_vars

\* async_main, lines 1782-1784: the defaults and the preset of the
\* configuration are laid over the parsed command line

\* Command lines: --bri, --scan-attempts, --on/--off, --light and --preset,
\* each absent or present, spelled in full, with =value or abbreviated
Argvs ==
    {b \o s \o p \o l \o n :
        b \in {<<>>, <<<<"-","-","b","r","i">>, <<"8","0">>>>, <<<<"-","-","b","r","i","=","8","0">>>>, <<<<"-","-","b","r">>, <<"8","0">>>>},
        s \in {<<>>, <<<<"-","-","s","c","a","n","-","a","t","t","e","m","p","t","s">>, <<"4">>>>, <<<<"-","-","s","c","a","n","-","a","t","t","=","4">>>>},
        p \in {<<>>, <<<<"-","-","o","n">>>>, <<<<"-","-","o","f","f">>>>},
        l \in {<<>>, <<<<"-","-","l","i","g","h","t">>, <<"A","A",":","B","B",":","C","C",":","D","D",":","E","E",":","0","1">>>>},
        n \in {<<>>, <<<<"-","-","p","r","e","s","e","t">>, <<"w","a","r","m">>>>}}

IntValue(n) == [t |-> "int", v |-> n]

StrValue(s) == [t |-> "str", v |-> s]

\* Configuration files: defaults and the preset "warm"
ConfigDatas ==
    {[defaults |-> <<>>,
      presets |-> [n \in {<<"w","a","r","m">>} |->
                      [per_light |-> <<>>, items |-> <<<<<<"b","r","i">>, IntValue(40)>> >>]]],
     [defaults |-> << <<<<"s","c","a","n","-","a","t","t","e","m","p","t","s">>, IntValue(9)>>, <<<<"b","r","i">>, IntValue(20)>>,
                      <<<<"u","n","k","n","o","w","n">>, IntValue(1)>> >>,
      presets |-> [n \in {<<"w","a","r","m">>} |->
                      [per_light |-> <<>>,
                       items |-> << <<<<"b","r","i","g","h","t","n","e","s","s">>, IntValue(40)>>,
                                    <<<<"p","o","w","e","r">>, StrValue(<<"o","n">>)>> >>]]],
     [defaults |-> << <<<<"s","c","a","n","_","a","t","t","e","m","p","t","s">>, StrValue(<<"9">>)>> >>,
      presets |-> [n \in {<<"w","a","r","m">>} |->
                      [per_light |-> <<<<"a","a",":","b","b",":","c","c",":","d","d",":","e","e",":","0","2">>>>,
                       items |-> << <<<<"p","o","w","e","r">>, [t |-> "bool", v |-> FALSE]>>,
                                    <<<<"l","i","g","h","t","s">>, StrValue(<<"A","A",":","B","B",":","C","C",":","D","D",":","E","E",":","0","3">>)>> >>]]],
     [defaults |-> <<>>, presets |-> <<>>]}

InitOverlay ==
    /\ InitNoRun
    /\ argv \in Argvs
    /\ passed = parse_args(argv, <<>>)
    /\ args = [a \in DOMAIN ParserDefaults |->
                  IF a \in DOMAIN passed THEN passed[a] ELSE ParserDefaults[a]]
    /\ config_data \in ConfigDatas
    /\ untagged = <<>>
    /\ tagged = <<>>
    /\ selector = <<>>
    /\ groups = <<>>
    /\ resolved = NoResult
    /\ opc = "defaults"

\* line 1783
ApplyDefaults ==
    /\ opc = "defaults"
    /\ args' = apply_defaults_from_config(args, config_data.defaults, argv)
    /\ opc' = "preset"
    /\ UNCHANGED <<run_mode, lights, missing, config, base_command, per_light_commands,
                   targets, discovery, calls, serve, query, light, pc, phase, engine,
                   client, linked, tasks, history, drops, rc, untagged, tagged,
                   selector, groups, resolved, argv, config_data, passed, attempting, batch, writing>>

\* line 1784; a ConfigError ends main with code 2 (lines 2089-2091)
ApplyPreset ==
    /\ opc = "preset"
    /\ LET r == apply_preset_from_config(args, config_data.presets, argv)
       IN  IF r.ok
           THEN args' = r.val /\ opc' = "done" /\ UNCHANGED rc
           ELSE rc' = 2 /\ opc' = "error" /\ UNCHANGED args
    /\ UNCHANGED <<run_mode, lights, missing, config, base_command, per_light_commands,
                   targets, discovery, calls, serve, query, light, pc, phase, engine,
                   client, linked, tasks, history, drops, untagged, tagged,
                   selector, groups, resolved, argv, config_data, passed, attempting, batch, writing>>

SpecOverlay == InitOverlay /\ [][ApplyDefaults \/ ApplyPreset]_vars

\* ------------------------------------------------------------------------
\* Properties of the one-shot command run (specification Spec)
\* ------------------------------------------------------------------------

\* send_command_adaptive is about to return its failure map
AdaptiveReturns == pc = "pass" /\ (attempt > config.passes \/ pending = {})

\* The plan send_command_once builds for f
PlanOf(f) == PlanFor(light[f], CommandFor(f), config.power_with_response)

\* C1 (as claimed): a fixture whose command was refused with UnsupportedMode
\* or a value error in some pass is not among the targets of any later pass
\* of the same call.
C1_RejectedNotRetried ==
    \A f \in Lights :
        (rejected[f] # 0 /\ pc = "gather" /\ phase \in {"connect", "send"}
            /\ f \in pending)
        => attempt = rejected[f]

\* C2 (as claimed): when send_command_adaptive returns, every input fixture
\* absent from the failure map had its whole plan written in some pass, and
\* every fixture in the map failed its latest connect or send.
C2_FailureMapExact ==
    AdaptiveReturns =>
        \A f \in targets :
            /\ f \notin DOMAIN failures => delivered[f]
            /\ f \in DOMAIN failures => last_ok[f] = "fail"

\* C3: at most max(1, parallel) tasks of a run_bounded are inside the
\* semaphore at any time, in the connect, write and drain phases.
C3_BoundedParallelism == Cardinality(InProgress) <= Max(1, config.parallel)

\* The semaphore is full during the write phase and a task waits for it
C3_Witness ==
    /\ phase = "send"
    /\ Cardinality(InProgress) = Max(1, config.parallel)
    /\ \E f \in Lights : tstate[f] = "waiting"

RECURSIVE ExpectedEvents(_, _)
\* The writes and sleeps of a plan, in plan order
ExpectedEvents(pl, settle) ==
    IF pl = <<>> THEN <<>>
    ELSE LET d == Max(settle, pl[1].delay)
         IN  <<WriteEvent(pl[1])>> \o (IF d > 0 THEN <<SleepEvent(d)>> ELSE <<>>)
                \o ExpectedEvents(Tail(pl), settle)

IsPrefix(s, t) == Len(s) <= Len(t) /\ SubSeq(t, 1, Len(s)) = s

\* C4: the plan send_command_once starts to write is the plan of the
\* fixture's command; from then on the events of the call are a prefix of that
\* plan's writes and delays in plan order; frame k+1 is being written only
\* when frames 1..k and their delays are all done; every write goes to the
\* write characteristic; a successful send has written the whole plan.
C4_FramesInPlanOrder ==
    \A f \in Lights :
        (phase = "send" /\ tstate[f] \in {"writing", "sleeping", "done"}) =>
            /\ \A i \in 1..Len(sent[f]) :
                   sent[f][i].op = "write" => sent[f][i].char = "SET_LIGHT_UUID"
            /\ (tstate[f] = "writing" /\ idx[f] = 1 /\ tries[f] = 1) =>
                   LET p == PlanOf(f) IN p.ok /\ plan[f] = p.val
            /\ tstate[f] = "writing" =>
                   sent[f] = ExpectedEvents(SubSeq(plan[f], 1, idx[f] - 1),
                                            config.settle_delay)
            /\ tstate[f] = "sleeping" =>
                   sent[f] = Append(ExpectedEvents(SubSeq(plan[f], 1, idx[f] - 1),
                                                   config.settle_delay),
                                    WriteEvent(plan[f][idx[f]]))
            /\ tstate[f] = "done" =>
                   IF res[f].ok
                   THEN /\ plan[f] # <<>>
                        /\ sent[f] = ExpectedEvents(plan[f], config.settle_delay)
                   ELSE IsPrefix(sent[f],
                                 ExpectedEvents(plan[f], config.settle_delay))

\* A plan of several frames is fully written while another fixture has
\* written frames of its own in the same pass
C4_Witness ==
    \E f, g \in Lights :
        /\ f # g
        /\ phase = "send"
        /\ tstate[f] = "done" /\ res[f].ok
        /\ Len(Written(sent[f])) >= 2
        /\ tstate[g] \in {"writing", "sleeping", "done"}
        /\ sent[g] # <<>>

\* C5 (as claimed): when the run has returned, no fixture is left with a
\* connected session (a session still connected at an exit has had its
\* disconnect attempted).
C5_SessionsReleased ==
    pc = "exit" => \A f \in Lights : ~is_light_connected(f)

\* C7: a gather of a pass ends only when every task has returned, whatever
\* the other tasks returned, and what the pass records for a fixture follows
\* from that fixture's own result: after the write phase a fixture is in the
\* failure map and carried over exactly when its own send failed, and its
\* send succeeded exactly when its own whole plan was written; after the
\* connect phase every connected target is made ready and every failed
\* connect is recorded.
C7_NoBatchAbort ==
    [][ /\ (pc = "gather" /\ phase = "send" /\ pc' = "pass") =>
            \A g \in ready :
                /\ tstate[g] = "done"
                /\ res[g].ok <=> (plan[g] # <<>> /\
                                  Written(sent[g]) = PlanPayloads(plan[g]))
                /\ (g \in DOMAIN failures') <=> ~res[g].ok
                /\ (g \in pending') <=> ~res[g].ok
        /\ (pc = "gather" /\ phase = "connect" /\ phase' # "connect"
               /\ pc' # "exit") =>
            \A g \in pending :
                /\ tstate[g] \in {"idle", "done"}
                /\ (tstate[g] = "done" /\ ~res[g].ok) => g \in DOMAIN failures'
                /\ (is_light_connected(g) /\ phase' = "send") =>
                       (g \in ready' /\ tstate'[g] = "waiting")
      ]_vars

\* In one write phase a fixture has failed and another one has been written
C7_Witness ==
    \E f, g \in Lights :
        /\ phase = "send"
        /\ tstate[f] = "done" /\ ~res[f].ok
        /\ tstate[g] = "done" /\ res[g].ok /\ delivered[g]

\* C9 (amended): exit code 0 only if a fixture was found, no target is
\* missing and the failure map is empty; 1 if no fixture was discovered, also
\* when targets are missing; 2 if a fixture was found and a target is missing
\* or a delivery failed, and for a configuration error; 130 on interrupt.
C9_ExitCodes ==
    pc = "exit" =>
        /\ rc = 0 => (lights # {} /\ missing = {} /\ DOMAIN failures = {})
        /\ (validate_runtime_args(args).ok /\ lights = {}) => rc = 1
        /\ (validate_runtime_args(args).ok /\ lights # {} /\ ~interrupted
               /\ (missing # {} \/ DOMAIN failures # {})) => rc = 2
        /\ ~validate_runtime_args(args).ok => rc = 2
        /\ interrupted => rc = 130

\* A fixture was delivered, a target is missing: exit code 2
C9_Witness ==
    /\ pc = "exit"
    /\ rc = 2
    /\ missing # {}
    /\ lights # {}
    /\ DOMAIN failures = {}
    /\ \E f \in lights : delivered[f]

\* C9 (as claimed): ... 2 whenever a targeted address is missing or a
\* delivery failed.
C9_Original ==
    pc = "exit" =>
        /\ rc = 0 => (lights # {} /\ missing = {} /\ DOMAIN failures = {})
        /\ (validate_runtime_args(args).ok /\ lights = {}) => rc = 1
        /\ (validate_runtime_args(args).ok /\ ~interrupted
               /\ (missing # {} \/ DOMAIN failures # {})) => rc = 2
        /\ ~validate_runtime_args(args).ok => rc = 2
        /\ interrupted => rc = 130

\* ------------------------------------------------------------------------
\* Properties of one send_command_once call (specification SpecOnce)
\* ------------------------------------------------------------------------

\* C6: no frame whose byte 1 is 134 or 136 is written to a CCT-only fixture,
\* whatever its dialect and whether the command is the default one or a
\* per-light override: for an HSI or scene base command the dialect branching
\* fails with UnsupportedMode, and a send that got that far ends with that
\* error and has written nothing.
C6_CctOnlyNeverColour ==
    \A f \in Lights :
        light[f].cct_only =>
            /\ \A i \in 1..Len(sent[f]) :
                   sent[f][i].op = "write" => sent[f][i].payload[2] \notin {134, 136}
            /\ CommandFor(f)[2] \in {134, 136} =>
                   /\ build_payload_sequence(light[f], CommandFor(f),
                          config.power_with_response) = Raise("UnsupportedModeError")
                   /\ sent[f] = <<>>
                   /\ tstate[f] = "done" =>
                          /\ ~res[f].ok
                          /\ res[f].err \in {"UnsupportedModeError", "not connected"}

\* A CCT-only fixture was given an HSI or scene command and the send has
\* returned UnsupportedMode
C6_Witness ==
    \E f \in Lights :
        /\ light[f].cct_only
        /\ light[f].infinity_mode = 1
        /\ CommandFor(f)[2] \in {134, 136}
        /\ tstate[f] = "done"
        /\ res[f].err = "UnsupportedModeError"

\* ------------------------------------------------------------------------
\* Properties of the serve run (specification SpecServe)
\* ------------------------------------------------------------------------

\* Positions of run_serve_mode inside its loop
ServeLoop == {"prompt", "pass", "gather"}

\* C8: in serve mode a session is disconnected or its slot cleared only in
\* the final drain; a connect is started only on a fixture that is not
\* connected; when the loop ends (EOF, exit/quit, or an exception raised in
\* it) every connected session light is handed to the bounded drain; and
\* when the run returns from the loop or the drain no session light is
\* connected.
C8_ServeSessions ==
    [][ /\ \A f \in Lights :
            /\ (tstate'[f] = "disconnecting" /\ tstate[f] # "disconnecting")
                   => pc = "serve_drain"
            /\ (client[f] # "None" /\ client'[f] = "None") => pc = "serve_drain"
            /\ (tstate'[f] = "connecting" /\ tstate[f] # "connecting")
                   => ~is_light_connected(f)
        /\ (pc \in ServeLoop /\ pc' \notin ServeLoop) =>
               IF DrainSet(lights) # {}
               THEN /\ pc' = "serve_drain"
                    /\ phase' = "drain"
                    /\ \A f \in Lights :
                           tstate'[f] = IF f \in lights /\ is_light_connected(f)
                                        THEN "waiting" ELSE "idle"
               ELSE pc' = "exit"
        /\ (pc \in ServeLoop \cup {"serve_drain"} /\ pc' = "exit") =>
               \A f \in lights : ~(client'[f] # "None" /\ linked'[f])
      ]_vars

\* Two verbs were delivered over the same session, which the final drain
\* then disconnected
C8_Witness ==
    /\ run_mode = "serve"
    /\ pc = "exit"
    /\ verbs = MaxVerbs
    /\ exit_code = 0
    /\ ~interrupted
    /\ drops = 0
    /\ \A f \in lights : delivered[f] /\ disc_attempted[f] /\ client[f] = "None"

\* The first connect_targets call of run_serve_mode ends with a failed
\* connect or with no session light ready
InitialConnectFailed ==
    \/ \E f \in Lights : tstate[f] = "done" /\ ~res[f].ok
    \/ ReadySet(lights) = {}

\* A line the loop has to skip: it does not parse, its verb is unknown or
\* its verb selects no session light
SkippedLine(line) ==
    LET command == Strip(line)
        lower == Lower(command)
        built == build_serve_command(command, args)
    IN  /\ command # <<>>
        /\ lower \notin {<<"e","x","i","t">>, <<"q","u","i","t">>,
                          <<"h","e","l","p">>, <<"?">>}
        /\ \/ ~built.ok
           \/ select_session_lights(lights, built.val.target_addresses) = {}

\* A line that shlex.split cannot split into tokens
Untokenizable(line) == ~shlex_split(Strip(line)).ok

\* The statement of C38 for the lines of the set skipped, with the runs that
\* end with a status of the set unhandled left out
ServeExitCodeFor(skipped, unhandled) ==
    /\ (pc = "serve_connect" /\ pc' # "serve_connect" /\ ~interrupted') =>
           IF pc' = "exit"
           THEN InitialConnectFailed /\ rc' = 2
           ELSE exit_code' = IF InitialConnectFailed THEN 2 ELSE 0
    /\ (pc = "pass" /\ pc' = "prompt") =>
           exit_code' = IF DOMAIN failures # {} THEN 2 ELSE exit_code
    /\ ~(pc = "serve_connect" /\ pc' # "serve_connect")
           /\ ~(pc = "pass" /\ pc' = "prompt")
           => exit_code' = exit_code
    /\ (pc \in ServeLoop \cup {"serve_drain"} /\ pc' = "exit" /\ ~interrupted'
            /\ rc' \notin unhandled) =>
           rc' = exit_code /\ rc' \in {0, 2}
    /\ \A line \in skipped :
           ServeLine(line) =>
               /\ pc' = "prompt"
               /\ sent' = sent
               /\ tstate' = tstate
               /\ client' = client
               /\ linked' = linked
               /\ disc_attempted' = disc_attempted
               /\ rc' = rc

\* C38: the exit code of the serve loop is 2 exactly when the initial
\* connect failed for some fixture or the delivery of some verb returned a
\* non-empty failure map, and 0 otherwise; once 2 it is not reset by a later
\* successful verb; a line that fails to parse, an unknown verb or a verb
\* that selects no session light sends nothing, leaves the sessions
\* untouched and does not change the exit code.
C38_ServeExitCode ==
    [][ServeExitCodeFor({line \in ServeLines : SkippedLine(line)}, {})]_vars

\* The same statement without the lines that shlex.split cannot split and
\* without the runs their ValueError ends (status 1)
C38_ButUntokenizable ==
    [][ServeExitCodeFor({line \in ServeLines :
                            SkippedLine(line) /\ ~Untokenizable(line)}, {1})]_vars

\* A verb failed for some fixture, a later verb was delivered to every
\* session light, and the run returned 2
C38_StaysTwo ==
    /\ run_mode = "serve"
    /\ pc = "exit"
    /\ ~interrupted
    /\ verbs = MaxVerbs
    /\ exit_code = 2
    /\ rc = 2
    /\ \A f \in lights : delivered[f]

\* ------------------------------------------------------------------------
\* Properties of one query_light_status_once call (specification SpecStatus)
\* ------------------------------------------------------------------------

\* What the support of a fixture resolves to: the explicit override, else the
\* name prefixes with the unsupported ones first
SupportResolvesTrue(l) ==
    \/ l.supports_status_query = "True"
    \/ /\ l.supports_status_query = "None"
       /\ ~\E p \in UnsupportedStatusPrefixes : StartsWith(Upper(l.name), p)
       /\ \E p \in SupportedStatusPrefixes : StartsWith(Upper(l.name), p)

\* C10: query_light_status_once subscribes or writes only if status queries
\* are enabled and the fixture's support resolves to true; otherwise it
\* returns a failure with an empty status and performs no transport operation.
C10_StatusGate ==
    \A f \in Lights :
        /\ ops[f] # <<>> =>
               (config.enable_status_query /\ SupportResolvesTrue(light[f]))
        /\ (qpc[f] = "done"
               /\ ~(config.enable_status_query /\ SupportResolvesTrue(light[f]))) =>
               /\ ~qresult[f].ok
               /\ DOMAIN qresult[f].status = {}
               /\ ops[f] = <<>>

\* A query on a fixture supported by its name has subscribed, written both
\* queries and returned a status
C10_Witness ==
    \E f \in Lights :
        /\ qpc[f] = "done"
        /\ light[f].supports_status_query = "None"
        /\ qresult[f].ok
        /\ \E i, j \in 1..Len(ops[f]) :
               /\ ops[f][i].op = "start_notify"
               /\ ops[f][j].op = "write"

\* C27: a pass after the first works only on fixtures whose connect or send
\* failed in the pass before; once a pass has written a fixture's whole plan,
\* send_command_adaptive starts no connect and no send_command_once on that
\* fixture and writes no further frame to it, so the plan is written once.
C27_DeliveredOnce ==
    [][\A f \in Lights :
          /\ (pc' = "pass" /\ attempt' > 1 /\ f \in pending') =>
                 (f \in DOMAIN failures' /\ last_ok'[f] = "fail" /\ ~delivered'[f])
          /\ (delivered[f] /\ delivered'[f]) =>
                 /\ pc' = "pass" => f \notin pending'
                 /\ tstate'[f] # "connecting"
                 /\ tstate'[f] = "waiting" => phase' = "drain"
                 /\ tstate'[f] = "writing" => tstate[f] = "writing" /\ sent'[f] = sent[f]
                 /\ sent'[f] # sent[f] =>
                        /\ Len(sent'[f]) = Len(sent[f]) + 1
                        /\ sent'[f][Len(sent'[f])].op = "sleep"]_vars

\* In the second pass a frame is being written to L2 while the plan of L1 was
\* written in the first pass and L1 has no task
C27_Witness ==
    /\ run_mode = "oneshot"
    /\ attempt = 2
    /\ phase = "send"
    /\ delivered["L1"]
    /\ tstate["L1"] = "idle"
    /\ tstate["L2"] = "writing"
    /\ pending = {"L2"}

\* C28 (specification SpecTerm): send_command_adaptive terminates.  No pass starts after pass
\* max(1, passes) or with an empty pending set, a connect task makes at most
\* connect_retries attempts and a frame is written at most write_retries
\* times, and when every transport operation returns the run ends.
C28_AdaptiveTerminates ==
    /\ [](/\ config.passes >= 1
          /\ attempt <= config.passes + 1
          /\ phase \in {"connect", "send"} =>
                 (attempt <= config.passes /\ pending # {})
          /\ \A f \in Lights :
                 /\ tstate[f] = "connecting" => tries[f] \in 1..config.connect_retries
                 /\ tstate[f] = "writing" => tries[f] \in 1..config.write_retries)
    /\ <>(pc = "exit")

\* The run has ended after the last allowed pass with a fixture still failing
C28_Witness ==
    /\ pc = "exit"
    /\ config.passes = MaxPasses
    /\ attempt = config.passes + 1
    /\ DOMAIN failures # {}
    /\ rc = 2

\* ------------------------------------------------------------------------
\* Properties of the encoder and the delivery plan (specification SpecPlan)
\* ------------------------------------------------------------------------

C15_InfinitySceneThreeFrames ==
    \A f \in Lights :
        LET l == light[f]
            cmd == CommandFor(f)
            mac == split_mac_address(IF l.hw_mac # <<>> THEN l.hw_mac ELSE l.address)
        IN  (/\ tstate[f] \in {"writing", "sleeping", "done"}
             /\ l.infinity_mode = 1
             /\ ~l.cct_only
             /\ l.hw_mac # <<>> \/ CountColons(l.address) = 5
             /\ cmd[2] = 136
             /\ Len(cmd) > 5 => model_supports_extended_scene(l)) =>
                /\ Len(plan[f]) = 3
                /\ \A i \in 1..3 : ~plan[f][i].response
                /\ plan[f][1].payload =
                       tag_checksum(<<120, 141, 8>> \o mac.val \o <<129, 0>>)
                /\ plan[f][1].delay = 50
                /\ plan[f][2].payload =
                       tag_checksum(<<120, 141, 8>> \o mac.val \o <<129, 1>>)
                /\ plan[f][2].delay = 50
                /\ LET e == plan[f][3].payload
                   IN  /\ SubSeq(e, 1, 2) = <<120, 145>>
                       /\ e[3] = Len(e) - 4
                       /\ SubSeq(e, 4, 9) = mac.val
                       /\ e[10] = 139
                       /\ cmd = <<120, 136, 2, 22, 60>> =>
                              e = tag_checksum(<<120, 145, 9>> \o mac.val \o <<139, 8, 60>>)
                       /\ (cmd = <<120, 136, 2, 22, 60>> /\ l.hw_mac = <<>>) =>
                              e = <<120, 145, 9, 170, 187, 204, 221, 238, 1,
                                    139, 8, 60, 222>>
                /\ (tstate[f] = "done" /\ res[f].ok) =>
                       sent[f] = <<WriteEvent(plan[f][1]), SleepEvent(50),
                                   WriteEvent(plan[f][2]), SleepEvent(50),
                                   WriteEvent(plan[f][3])>>

\* An Infinity fixture without a configured hw_mac has been sent the scene
\* command of effect 22 at brightness 60, all three frames
C15_Witness ==
    \E f \in Lights :
        /\ light[f].infinity_mode = 1
        /\ ~light[f].cct_only
        /\ light[f].hw_mac = <<>>
        /\ base_command = <<120, 136, 2, 22, 60>>
        /\ tstate[f] = "done"
        /\ res[f].ok
        /\ Len(sent[f]) = 5

\* C15 as stated, for the plans that are produced: three frames, the third
\* of effect 22 at brightness 60 being [120,145,6, mac(6), 139, 8, 60] and
\* its checksum
C15_Original ==
    \A f \in Lights :
        LET l == light[f]
            cmd == CommandFor(f)
            mac == split_mac_address(IF l.hw_mac # <<>> THEN l.hw_mac ELSE l.address)
        IN  (/\ tstate[f] \in {"writing", "sleeping", "done"}
             /\ l.infinity_mode = 1
             /\ cmd[2] = 136
             /\ plan[f] # <<>>) =>
                /\ Len(plan[f]) = 3
                /\ plan[f][1].payload =
                       tag_checksum(<<120, 141, 8>> \o mac.val \o <<129, 0>>)
                /\ plan[f][2].payload =
                       tag_checksum(<<120, 141, 8>> \o mac.val \o <<129, 1>>)
                /\ cmd = <<120, 136, 2, 22, 60>> =>
                       plan[f][3].payload =
                           tag_checksum(<<120, 145, 6>> \o mac.val \o <<139, 8, 60>>)

\* C16: for a CCT-only fixture of any dialect and any CCT base command
\* [120,135,_,bri,temp,gm], the plan is exactly two no-ack frames,
\* [120,130,1,bri] + checksum with a 50 ms post-delay and then
\* [120,131,1,temp] + checksum, whatever the GM byte; a send that passes the
\* range validation writes these two frames in this order, 50 ms apart.
C16_CctOnlySplit ==
    \A f \in Lights :
        LET l == light[f]
            cmd == CommandFor(f)
        IN  (pc = "once" /\ l.cct_only /\ cmd[2] = 135) =>
                LET expected ==
                        <<Frame(<<120, 130, 1, cmd[4], (251 + cmd[4]) % 256>>, FALSE, 50),
                          Frame(<<120, 131, 1, cmd[5], (252 + cmd[5]) % 256>>, FALSE, 0)>>
                IN  /\ \A g \in {0, 50, 100} :
                           build_payload_sequence(l, [cmd EXCEPT ![6] = g],
                               config.power_with_response) = Ok(expected)
                    /\ build_payload_sequence(l, cmd, config.power_with_response)
                           = Ok(expected)
                    /\ plan[f] \in {<<>>, expected}
                    /\ (tstate[f] = "done" /\ res[f].ok) =>
                           sent[f] = <<WriteEvent(expected[1]), SleepEvent(50),
                                       WriteEvent(expected[2])>>

\* A CCT-only fixture of the Infinity dialect has been sent both frames of a
\* CCT command whose GM is not neutral
C16_Witness ==
    \E f \in Lights :
        /\ light[f].cct_only
        /\ light[f].infinity_mode = 1
        /\ Len(base_command) = 6
        /\ base_command[2] = 135
        /\ base_command[6] = 80
        /\ tstate[f] = "done"
        /\ res[f].ok
        /\ Len(sent[f]) = 3

\* C17: for a Classic fixture that is not CCT-only, every CCT base command
\* is planned as exactly one no-ack frame [120,135,2,bri,temp] followed by
\* the checksum of these five bytes, whatever the GM byte; a send that passes
\* the range validation writes that one frame.
C17_ClassicCctDropsGm ==
    \A f \in Lights :
        LET l == light[f]
            cmd == CommandFor(f)
        IN  (pc = "once" /\ l.infinity_mode = 0 /\ ~l.cct_only /\ cmd[2] = 135) =>
                LET expected ==
                        <<Frame(<<120, 135, 2, cmd[4], cmd[5],
                                  (120 + 135 + 2 + cmd[4] + cmd[5]) % 256>>, FALSE, 0)>>
                IN  /\ build_payload_sequence(l, cmd, config.power_with_response)
                           = Ok(expected)
                    /\ plan[f] \in {<<>>, expected}
                    /\ (tstate[f] = "done" /\ res[f].ok) =>
                           sent[f] = <<WriteEvent(expected[1])>>

\* A Classic RGB fixture has been sent a CCT command whose GM is not neutral
C17_Witness ==
    \E f \in Lights :
        /\ light[f].infinity_mode = 0
        /\ ~light[f].cct_only
        /\ Len(base_command) = 6
        /\ base_command[2] = 135
        /\ base_command[6] = 80
        /\ tstate[f] = "done"
        /\ res[f].ok
        /\ Len(sent[f]) = 1

\* C18: a mode-135 command for a fixture whose name matches a ModelSpecs
\* entry is refused with UnsupportedMode, before any frame is planned or
\* written, exactly when its temp code lies outside the entry's Kelvin range
\* in temp codes (SL90 25..100, Apollo 56..56, MS60B 27..65, SNL660 32..56),
\* CCT-only fixtures included; inside the range, for another mode, or for a
\* name no entry matches, validation passes.
C18_CctRangeValidated ==
    \A f \in Lights :
        LET l == light[f]
            cmd == CommandFor(f)
            range == CASE l.name = <<"S","L","9","0">> -> <<25, 100>>
                       [] l.name = <<"A","p","o","l","l","o">> -> <<56, 56>>
                       [] l.name = <<"M","S","6","0","B">> -> <<27, 65>>
                       [] l.name = <<"S","N","L","6","6","0">> -> <<32, 56>>
                       [] OTHER -> <<>>
            outside == /\ cmd[2] = 135
                       /\ range # <<>>
                       /\ (cmd[5] < range[1] \/ cmd[5] > range[2])
        IN  pc = "once" =>
                /\ validate_base_command_for_light(l, cmd) =
                       (IF outside THEN Raise("UnsupportedModeError") ELSE Ok(<<>>))
                /\ (outside /\ tstate[f] \notin {"idle", "waiting"}) =>
                       /\ tstate[f] = "done"
                       /\ res[f] = Result(FALSE, "UnsupportedModeError")
                       /\ plan[f] = <<>>
                       /\ sent[f] = <<>>
                /\ (~outside /\ tstate[f] = "done" /\ cmd[2] = 135
                        /\ (l.cct_only \/ l.infinity_mode # 1)) =>
                       res[f].err \in {"", "write error"}

\* An Apollo fixture that is CCT-only has been refused a CCT command at temp
\* code 70
C18_Witness ==
    \E f \in Lights :
        /\ light[f].name = <<"A","p","o","l","l","o">>
        /\ light[f].cct_only
        /\ base_command = <<120, 135, 2, 40, 70, 50>>
        /\ tstate[f] = "done"
        /\ res[f].err = "UnsupportedModeError"
        /\ sent[f] = <<>>

\* C19: an extended-form scene base command (more than 5 bytes) for a
\* fixture whose extended-scene support resolves to false (the override when
\* there is one, else dialect Infinity or InfinityLite and not CCT-only) is
\* refused with UnsupportedMode and nothing is planned or written; for a
\* short-form scene base the outcome does not depend on extended-scene
\* support, and a fixture that is not CCT-only is never refused.
C19_ExtendedSceneGate ==
    \A f \in Lights :
        LET l == light[f]
            cmd == CommandFor(f)
            supported == IF l.supports_extended_scene = "True" THEN TRUE
                         ELSE IF l.supports_extended_scene = "False" THEN FALSE
                         ELSE l.infinity_mode \in {1, 2} /\ ~l.cct_only
            built == build_payload_sequence(l, cmd, config.power_with_response)
        IN  (pc = "once" /\ cmd[2] = 136) =>
                /\ (Len(cmd) > 5 /\ ~supported) =>
                       /\ built = Raise("UnsupportedModeError")
                       /\ tstate[f] \notin {"idle", "waiting"} =>
                              /\ tstate[f] = "done"
                              /\ res[f] = Result(FALSE, "UnsupportedModeError")
                              /\ plan[f] = <<>>
                              /\ sent[f] = <<>>
                /\ Len(cmd) <= 5 =>
                       /\ \A x \in {"None", "True", "False"} :
                              build_payload_sequence(
                                  [l EXCEPT !.supports_extended_scene = x], cmd,
                                  config.power_with_response) = built
                       /\ ~l.cct_only => built.err # "UnsupportedModeError"

\* An Infinity fixture whose override says it has no extended-scene support
\* has been refused an extended scene command
C19_Witness ==
    \E f \in Lights :
        /\ light[f].infinity_mode = 1
        /\ ~light[f].cct_only
        /\ light[f].supports_extended_scene = "False"
        /\ pc = "once"
        /\ base_command[2] = 136
        /\ Len(base_command) > 5
        /\ tstate[f] = "done"
        /\ res[f].err = "UnsupportedModeError"

\* ------------------------------------------------------------------------
\* Properties of the encoder (specification SpecEncode)
\* ------------------------------------------------------------------------

\* C20: for every integer argument the encoder returns a base command and
\* never refuses: a CCT base carries the brightness limited to [0,100], a
\* temp code in [25,100] and gm+50 limited to [0,100]; an HSI base carries
\* the hue limited to [0,360] as low byte then high byte, and saturation and
\* brightness limited to [0,100]; a scene base carries an effect in [1,29];
\* every byte of the base is in [0,255].
C20_EncoderClamps ==
    pc # "start" =>
        LET b == base_command
            a == args
            m == IF a.on \/ a.off THEN <<>> ELSE Upper(a.mode)
            limit(v, lo, hi) == IF v < lo THEN lo ELSE IF v > hi THEN hi ELSE v
        IN  /\ pc = "once"
            /\ rc = -1
            /\ \A i \in 1..Len(b) : b[i] \in 0..255
            /\ m = <<"C","C","T">> =>
                   /\ Len(b) = 6
                   /\ SubSeq(b, 1, 3) = <<120, 135, 2>>
                   /\ b[4] = limit(a.bri, 0, 100)
                   /\ b[5] \in 25..100
                   /\ a.temp \in 25..100 => b[5] = a.temp
                   /\ a.temp = 5600 => b[5] = 56
                   /\ b[6] = limit(a.gm + 50, 0, 100)
            /\ m = <<"H","S","I">> =>
                   /\ Len(b) = 7
                   /\ SubSeq(b, 1, 3) = <<120, 134, 4>>
                   /\ b[4] + 256 * b[5] = limit(a.hue, 0, 360)
                   /\ b[6] = limit(a.sat, 0, 100)
                   /\ b[7] = limit(a.bri, 0, 100)
            /\ m \in {<<"S","C","E","N","E">>, <<"A","N","M">>} =>
                   /\ SubSeq(b, 1, 2) = <<120, 136>>
                   /\ b[3] = Len(b) - 3
                   /\ b[4] \in 1..29
                   /\ ~a.enable_extended_scene =>
                          b = <<120, 136, 2, limit(a.scene, 1, 29), limit(a.bri, 0, 100)>>

\* A CCT command line with brightness -300, temperature 70000 and GM 101 has
\* been encoded at the limits
C20_Witness ==
    /\ args.bri = -300
    /\ args.temp = 70000
    /\ args.gm = 101
    /\ base_command = <<120, 135, 2, 0, 100, 100>>

\* C21: the temp byte of a CCT base is the temperature argument, divided by
\* 100 and rounded to the nearest integer (halves to the even neighbour) when
\* the argument is 1000 or more and taken as it is when below 1000, then
\* limited to [25,100]: 5600 gives 56, 56 gives 56, 10100 gives 100.
C21_TempNormalized ==
    (pc # "start" /\ ~args.on /\ ~args.off /\ Upper(args.mode) = <<"C","C","T">>) =>
        LET t == args.temp
            lo == t \div 100
            r == t - 100 * lo
            q == IF t < 1000 THEN t
                 ELSE IF r < 50 THEN lo
                 ELSE IF r > 50 THEN lo + 1
                 ELSE IF lo % 2 = 0 THEN lo ELSE lo + 1
            code == IF q < 25 THEN 25 ELSE IF q > 100 THEN 100 ELSE q
        IN  /\ Len(base_command) = 6
            /\ base_command[5] = code
            /\ t >= 1000 /\ r = 0 => base_command[5] = (IF lo > 100 THEN 100 ELSE IF lo < 25 THEN 25 ELSE lo)
            /\ t \in 25..100 => base_command[5] = t
            /\ t = 5600 => base_command[5] = 56
            /\ t = 10100 => base_command[5] = 100

\* The temperature 10100 has been encoded as the temp code 100
C21_Witness ==
    /\ args.temp = 10100
    /\ Len(base_command) = 6
    /\ base_command[5] = 100
    /\ pc = "once"

\* C22: every base command has byte 0 = 120; for power, HSI, the short scene
\* form and every extended scene effect 1..29, byte 2 is the number of bytes
\* that follow it; a CCT base has byte 2 = 2 and is followed by three bytes
\* (brightness, temp code, GM).
C22_BaseLengthByte ==
    pc # "start" =>
        /\ Len(base_command) >= 4
        /\ base_command[1] = 120
        /\ IF base_command[2] = 135
           THEN base_command[3] = 2 /\ Len(base_command) = 6
           ELSE base_command[3] = Len(base_command) - 3

\* The extended scene 12 has been encoded with seven bytes after byte 2
C22_Witness ==
    /\ args.enable_extended_scene
    /\ args.scene = 12
    /\ Len(base_command) = 10
    /\ base_command[3] = 7

\* C22 as stated: byte 2 of every base command, CCT included, is the number
\* of bytes that follow it.
C22_Original ==
    pc # "start" =>
        /\ Len(base_command) >= 4
        /\ base_command[1] = 120
        /\ base_command[3] = Len(base_command) - 3

\* ------------------------------------------------------------------------
\* Properties of disconnect_light (specification SpecDisconnect)
\* ------------------------------------------------------------------------

\* C12: every disconnect_light call ends without an error and with the
\* fixture's session slot empty, whether client.disconnect() returned or
\* raised; a later call on the same fixture returns at once: it awaits no
\* transport operation and changes no field of the fixture.
C12_DisconnectIdempotent ==
    [][\A f \in Lights :
          /\ tstate'[f] = "done" => (client'[f] = "None" /\ res'[f] = NoResult)
          /\ (calls[f] >= 1 /\ tstate[f] = "waiting" /\ tstate'[f] # "waiting") =>
                 /\ tstate'[f] = "done"
                 /\ client'[f] = client[f]
                 /\ linked'[f] = linked[f]
                 /\ light'[f] = light[f]
                 /\ disc_attempted'[f] = disc_attempted[f]]_vars

\* The first call's client.disconnect() raised (the slot is empty although
\* the link was never reported closed) and the second call has returned
C12_Witness ==
    \E f \in Lights :
        /\ run_mode = "disconnect"
        /\ calls[f] = 1
        /\ tstate[f] = "done"
        /\ disc_attempted[f]
        /\ linked[f]
        /\ client[f] = "None"

\* ------------------------------------------------------------------------
\* Properties of discovery (specification SpecDiscover)
\* ------------------------------------------------------------------------

\* C13: when discover_with_retries has returned, the descriptor of every
\* address carries the strongest RSSI among all admissible sightings of that
\* address, within one scan and across the retry scans.
C13_StrongestRssiKept ==
    dpc = "done" =>
        \A a \in DOMAIN collected : collected[a] = strongest[a]

\* C14: at most scan_attempts scans run.  With a target set the loop goes on
\* exactly while some target is uncollected and scans remain, and the
\* missing list is the set of targets never sighted; open discovery without
\* collect_all goes on exactly while nothing is collected and scans remain;
\* open discovery with collect_all runs all scan_attempts scans.
C14_ScanLoopStops ==
    LET covered == /\ discover_targets # <<>>
                   /\ discover_targets[1] \subseteq DOMAIN collected
        exhausted == scan_attempt = config.scan_attempts
    IN  /\ scan_attempt <= config.scan_attempts
        /\ discover_targets # <<>> =>
               /\ dpc = "scan" => ~covered
               /\ dpc # "scan" => (covered \/ exhausted)
               /\ dpc = "done" =>
                      missing = {a \in discover_targets[1] : a \notin DOMAIN strongest}
        /\ (discover_targets = <<>> /\ ~collect_all) =>
               /\ dpc = "scan" => collected = <<>>
               /\ dpc # "scan" => (DOMAIN collected # {} \/ exhausted)
               /\ dpc = "done" => missing = {}
        /\ (discover_targets = <<>> /\ collect_all) =>
               /\ dpc # "scan" <=> exhausted
               /\ dpc = "done" => missing = {}

\* A targeted discovery needed a second scan to collect its last target and
\* returned with nothing missing
C14_Witness ==
    /\ dpc = "done"
    /\ discover_targets = <<Lights>>
    /\ scan_attempt = 2
    /\ missing = {}
    /\ lights = Lights

\* ------------------------------------------------------------------------
\* Properties of connect_light (specification SpecConnect)
\* ------------------------------------------------------------------------

CountOf(log, what) == Cardinality({i \in 1..Len(log) : log[i] = what})

\* The error text connect_light keeps for a failed attempt
ErrorOf(outcome) ==
    IF outcome = "unconnected" THEN "connect() completed but client is not connected"
    ELSE IF outcome = "raised" THEN "connect error"
    ELSE "client error"

\* The outcome of the latest failed attempt in the log
LastFailure(log) ==
    LET F == {i \in 1..Len(log) : log[i] \in {"unconnected", "raised", "no client"}}
    IN  log[CHOOSE i \in F : \A j \in F : j <= i]

\* C29: in every step of connect_light, for every fixture: it has begun at
\* most connect_retries attempts; once it has returned it does nothing more,
\* and a connect() that came back connected is the last thing it did; the
\* session slot and hw_mac change only in the step in which connect() came back
\* connected, which stores the new handle and returns success, and success is
\* returned in no other step; every connect() that raised or came back
\* unconnected is followed at once by disconnect() on the handle and then the
\* back-off sleep; and when it returns failure, connect_retries attempts were
\* made and the error returned is that of the last one.
C29_ConnectLight ==
    [][\A f \in Lights :
          LET log == conn_ops'[f]
              n == Len(log)
              connected == n > 0 /\ log[n] = "connected" /\ conn_ops[f] # log
          IN  /\ CountOf(log, "connect") + CountOf(log, "no client") <= config.connect_retries
              /\ tries'[f] <= config.connect_retries
              /\ cpc[f] = "done" => (cpc'[f] = "done" /\ log = conn_ops[f] /\ res'[f] = res[f])
              /\ \A i \in 1..n : log[i] = "connected" => i = n /\ cpc'[f] = "done"
              /\ (client'[f] # client[f] \/ linked'[f] # linked[f] \/ light'[f] # light[f])
                     => connected
              /\ connected => /\ client'[f] = "client"
                              /\ linked'[f]
                              /\ res'[f] = Result(TRUE, "")
                              /\ log[n - 1] = "connect"
              /\ (res'[f].ok /\ ~res[f].ok) => connected
              /\ \A i \in 1..n : log[i] \in {"unconnected", "raised"} =>
                     /\ log[i - 1] = "connect"
                     /\ i < n /\ log[i + 1] = "disconnect"
                     /\ i + 1 < n => log[i + 2] \in {"sleep", "cancelled"}
              /\ \A i \in 1..n : log[i] = "disconnect" => log[i - 1] \in {"unconnected", "raised"}
              /\ (cpc'[f] = "done" /\ ~res'[f].ok) =>
                     /\ CountOf(log, "connect") + CountOf(log, "no client") = config.connect_retries
                     /\ res'[f].err = ErrorOf(LastFailure(log))]_vars

\* Both attempts of a call failed, one unconnected and one raising; the handle
\* of each was disconnected and the stale session of the fixture is still there
C29_Witness ==
    /\ run_mode = "connect"
    /\ config.connect_retries = 2
    /\ cpc["L1"] = "done"
    /\ res["L1"] = Result(FALSE, "connect error")
    /\ conn_ops["L1"] = <<"connect", "unconnected", "disconnect", "sleep",
                          "connect", "raised", "disconnect", "sleep">>
    /\ client["L1"] = "client"
    /\ ~linked["L1"]

\* C30: when a connect_light call that was awaiting connect() on a handle has
\* ended by cancellation, disconnect() was awaited on that handle after the
\* connect().
C30_CancelDisconnects ==
    \A f \in Lights :
        LET log == conn_ops[f]
            n == Len(log)
        IN  (cpc[f] = "cancelled" /\ n >= 2 /\ handle[f] # "None"
                 /\ \E i \in 1..n : log[i] = "cancelled" /\ log[i - 1] = "connect") =>
                \E i, j \in 1..n : i < j /\ log[i] = "connect" /\ log[j] = "disconnect"
                                       /\ \A k \in i + 1..n : log[k] # "connect"

\* ------------------------------------------------------------------------
\* Properties of the adaptive engines over items (specification SpecAdaptive)
\* ------------------------------------------------------------------------

\* C26: at no time of a send_command_adaptive or query_status_adaptive call
\* are two operations in progress on the same address, whatever their kind
\* and whatever the pass, also when the input lists an address several times.
C26_OneOperationPerAddress ==
    run_mode \in {"send adaptive", "status adaptive"} =>
        \A i, j \in 1..Len(jobs) :
            (i # j /\ jobs[i].st = "running" /\ jobs[j].st = "running") =>
                jobs[i].addr # jobs[j].addr

\* In the second pass of a call whose input lists L1 twice, the operations on
\* L1 and L2 are in progress together
C26_Witness ==
    /\ run_mode = "status adaptive"
    /\ light_seq = <<"L1", "L2", "L1">>
    /\ attempt = 2
    /\ phase = "send"
    /\ Len(jobs) = 2
    /\ jobs[1].st = "running"
    /\ jobs[2].st = "running"

\* ------------------------------------------------------------------------
\* Properties of write_payload (specification SpecWrite)
\* ------------------------------------------------------------------------

WritesIn(log) == {i \in 1..Len(log) : log[i].op = "write"}

RaisedIn(log) == {i \in 1..Len(log) : log[i].op = "raised"}

\* C31: write_payload awaits write_gatt_char for its frame at most retries
\* times, always with the frame and the response flag it was given; a write
\* that returned is the last thing it did and makes it return success; it
\* returns success in no other case; and when it returns failure, every one of
\* the retries attempts raised and the error returned is that of the last.
C31_WritePayload ==
    run_mode = "write" =>
        LET n == Len(wr_ops)
        IN  /\ Cardinality(WritesIn(wr_ops)) <= wr_retries
            /\ wr_attempt = Cardinality(WritesIn(wr_ops))
            /\ \A i \in WritesIn(wr_ops) : wr_ops[i] = WriteAwaited
            /\ \A i \in 1..n : wr_ops[i].op = "written" =>
                   /\ i = n
                   /\ wr_pc = "done"
                   /\ wr_result = Result(TRUE, "")
            /\ (wr_pc = "done" /\ wr_result.ok) => (n > 0 /\ wr_ops[n].op = "written")
            /\ wr_pc # "done" => wr_result = NoResult
            /\ (wr_pc = "done" /\ ~wr_result.ok) =>
                   /\ Cardinality(WritesIn(wr_ops)) = wr_retries
                   /\ Cardinality(RaisedIn(wr_ops)) = wr_retries
                   /\ \E i \in RaisedIn(wr_ops) :
                          /\ \A j \in RaisedIn(wr_ops) : j <= i
                          /\ wr_result.err = wr_ops[i].err

\* Every attempt of a call with three retries failed, the last one with an
\* error other than the first
C31_Witness ==
    /\ run_mode = "write"
    /\ wr_retries = 3
    /\ wr_pc = "done"
    /\ wr_result = Result(FALSE, "gone")
    /\ wr_ops[2] = [op |-> "raised", err |-> "busy"]
    /\ Cardinality(WritesIn(wr_ops)) = 3

\* ------------------------------------------------------------------------
\* Properties of the status query with retries and cancellation
\* (specification SpecQuery)
\* ------------------------------------------------------------------------

\* The subscriptions that were made: start_notify returned and the first
\* query write followed
Subscribed(log) ==
    {i \in 1..Len(log) : log[i].op = "start_notify" /\ i < Len(log)
                         /\ log[i + 1].op = "write"}

StopStates == {"stop_notify", "stop_notify_raising", "stop_notify_cancelled"}

\* C32: in every step, a subscription that query_notify_payload made is
\* either still in use by that call or was followed by a stop_notify before
\* anything else was subscribed, so that after every exit (payload found,
\* retries used up, write error, cancellation) stop_notify was awaited; and
\* the step in which stop_notify ends, returning or raising, leaves the
\* payloads alone and gives the result that the payloads and the pending
\* error determine.
C32_AlwaysUnsubscribed ==
    [][\A f \in Lights :
          LET log == ops'[f]
              n == Len(log)
          IN  /\ \A i \in Subscribed(log) :
                     \/ /\ qpc'[f] \in {"write", "wait", "backoff"}
                        /\ \A k \in i + 1..n : log[k].op = "write"
                     \/ \E j \in i + 1..n :
                            /\ log[j].op = "stop_notify"
                            /\ \A k \in i + 1..j - 1 : log[k].op # "start_notify"
              /\ qpc'[f] \in {"done", "cancelled"} =>
                     \A i \in 1..n : log[i].op = "stop_notify" =>
                         i < n /\ log[i + 1].op \in {"stop_notify returned",
                                                     "stop_notify raised", "cancelled"}
              /\ (qpc[f] \in StopStates /\ qpc'[f] \notin StopStates
                     /\ log[n].op # "cancelled") =>
                     /\ got'[f] = got[f]
                     /\ qresult'[f] =
                            IF qpc[f] = "stop_notify_raising"
                            THEN StatusResult(FALSE, "write error", <<>>)
                            ELSE IF qpc[f] = "stop_notify_cancelled" \/ qwhich[f] = "power"
                            THEN qresult[f]
                            ELSE IF got[f].power = <<>> /\ got[f].channel = <<>>
                            THEN StatusResult(FALSE,
                                     "status query timed out (no notify response)", <<>>)
                            ELSE StatusResult(TRUE, "",
                                     parse_status_payload(got[f].power, got[f].channel))
                     /\ qpc'[f] = IF qpc[f] = "stop_notify_cancelled" THEN "cancelled"
                                  ELSE IF qpc[f] = "stop_notify" /\ qwhich[f] = "power"
                                  THEN "start_notify" ELSE "done"]_vars

\* The power query found its payload and its stop_notify raised; the channel
\* query was cancelled in its wait and its stop_notify was awaited too
C32_Witness ==
    /\ run_mode = "query_notify"
    /\ qpc["L1"] = "cancelled"
    /\ qwhich["L1"] = "channel"
    /\ got["L1"].power = <<120, 2, 1, 1>>
    /\ \E i \in 1..Len(ops["L1"]) : ops["L1"][i].op = "stop_notify raised"
    /\ Len(ops["L1"]) > 3
    /\ ops["L1"][Len(ops["L1"]) - 2].op = "cancelled"
    /\ ops["L1"][Len(ops["L1"]) - 1].op = "stop_notify"

\* The query writes in the log that carry the given command
QueryWrites(log, command) ==
    {i \in 1..Len(log) : log[i].op = "write" /\ log[i].payload = command}

ClassicFx(effect) ==
    CASE effect = 1 -> 7
      [] effect = 2 -> 8
      [] effect = 10 -> 1
      [] effect = 11 -> 6
      [] effect = 15 -> 9
      [] effect = 16 -> 4
      [] effect = 17 -> 5
      [] effect \notin {1, 2, 10, 11, 15, 16, 17} /\ effect < 20 -> 10
      [] OTHER -> effect - 20

\* The effect table of the Infinity dialect for the effects up to 29
InfinityFx(effect) ==
    IF effect <= 20 THEN effect
    ELSE <<10, 8, 12, 12, 17, 11, 1, 2, 15>>[effect - 20]

\* C34: for a Classic fixture that is not CCT-only, the short-form scene base
\* [120,136,2,effect,bri] is planned, and on success written, as the single
\* no-ack frame [120,136,2,bri,ClassicFx(effect)] followed by its checksum;
\* convert_fx_index(0, .) is ClassicFx on every byte value and
\* convert_fx_index(1, .) is InfinityFx on the effects up to 29, which is the
\* index an Infinity effect envelope carries after its marker byte 139.
C34_ClassicSceneFrame ==
    /\ \A e \in 0..255 : convert_fx_index(0, e) = ClassicFx(e)
    /\ \A e \in 0..29 : convert_fx_index(1, e) = InfinityFx(e)
    /\ \A f \in Lights :
        LET l == light[f]
            cmd == CommandFor(f)
        IN  (pc = "once" /\ Len(cmd) = 5 /\ cmd[2] = 136 /\ ~l.cct_only) =>
                /\ l.infinity_mode = 0 =>
                       LET five == <<120, 136, 2, cmd[5], ClassicFx(cmd[4])>>
                           expected ==
                               <<Frame(Append(five, (120 + 136 + 2 + cmd[5]
                                                     + ClassicFx(cmd[4])) % 256),
                                       FALSE, 0)>>
                       IN  /\ build_payload_sequence(l, cmd, config.power_with_response)
                                  = Ok(expected)
                           /\ plan[f] \in {<<>>, expected}
                           /\ (tstate[f] = "done" /\ res[f].ok) =>
                                  sent[f] = <<WriteEvent(expected[1])>>
                /\ (l.infinity_mode = 1 /\ Len(plan[f]) = 3) =>
                       /\ plan[f][3].payload[10] = 139
                       /\ plan[f][3].payload[11] = InfinityFx(cmd[4])

\* A Classic RGB fixture was sent scene 17 at brightness 60 as the one frame
\* [120,136,2,60,5] with its checksum
C34_Witness ==
    \E f \in Lights :
        /\ light[f].infinity_mode = 0
        /\ ~light[f].cct_only
        /\ base_command = <<120, 136, 2, 17, 60>>
        /\ tstate[f] = "done"
        /\ res[f].ok
        /\ sent[f] = <<WriteEvent(Frame(<<120, 136, 2, 60, 5, 67>>, FALSE, 0))>>

\* Byte 0 of a frame is 120 and byte 2 counts the bytes between byte 2 and
\* the checksum
WellFramed(frame) ==
    /\ Len(frame) >= 4
    /\ frame[1] = 120
    /\ frame[3] = Len(frame) - 4

\* C36: for every fixture and every base command of the encoder for which
\* build_payload_sequence returns a plan, each frame of the plan has byte 0 =
\* 120 and byte 2 equal to the number of bytes between byte 2 and the
\* checksum byte.
C36_FramesWellFormed ==
    \A f \in Lights : \A i \in 1..Len(plan[f]) : WellFramed(plan[f][i].payload)

\* The same for every plan but the one of a Classic fixture (not CCT-only)
\* with extended-scene support for a scene base longer than five bytes
C36_ButClassicExtended ==
    \A f \in Lights :
        (light[f].infinity_mode = 0 /\ Len(CommandFor(f)) > 5
            /\ CommandFor(f)[2] = 136)
        \/ \A i \in 1..Len(plan[f]) : WellFramed(plan[f][i].payload)

\* C35: when write_payload fails for a frame (after write_retries attempts),
\* send_command_once returns the failure having written exactly the frames
\* before it, and nothing more is written for the fixture until its next
\* send_command_once call; the failed fixture is carried to the next pass;
\* every call starts with an empty record at frame 1 of the whole plan of
\* the command, so the first write of every pass is the first frame: the
\* power-off envelope (followed by the power-on envelope) for an Infinity
\* scene, the brightness frame [120,130,1,bri] for a CCT-only fixture.
C35_FailedPlanRestarts ==
    [][\A f \in Lights :
          /\ (tstate[f] = "writing" /\ tstate'[f] = "done" /\ ~res'[f].ok) =>
                 /\ tries[f] = config.write_retries
                 /\ sent'[f] = sent[f]
                 /\ Written(sent[f]) = SubSeq(PlanPayloads(plan[f]), 1, idx[f] - 1)
          /\ (sent'[f] # sent[f] /\ ~interrupted') =>
                 \/ tstate[f] = "waiting" /\ sent'[f] = <<>>
                 \/ tstate[f] \in {"writing", "sleeping"} /\ Len(sent'[f]) = Len(sent[f]) + 1
          /\ (pc = "gather" /\ phase = "send" /\ pc' = "pass"
                 /\ f \in ready /\ res[f].err = "write error") =>
                 f \in pending'
          /\ (phase = "send" /\ tstate[f] = "waiting" /\ tstate'[f] = "writing") =>
                 /\ sent'[f] = <<>>
                 /\ idx'[f] = 1
                 /\ plan'[f] = PlanOf(f).val
                 /\ (light[f].infinity_mode = 1 /\ CommandFor(f)[2] = 136) =>
                        /\ Len(plan'[f]) = 3
                        /\ plan'[f][1].payload[2] = 141
                        /\ plan'[f][1].payload[11] = 0
                        /\ plan'[f][2].payload[2] = 141
                        /\ plan'[f][2].payload[11] = 1
                 /\ (light[f].cct_only /\ CommandFor(f)[2] = 135) =>
                        /\ Len(plan'[f]) = 2
                        /\ SubSeq(plan'[f][1].payload, 1, 4)
                               = <<120, 130, 1, CommandFor(f)[4]>>
          /\ (Written(sent[f]) = <<>> /\ Written(sent'[f]) # <<>>) =>
                 Written(sent'[f]) = <<plan[f][1].payload>>
      ]_vars

\* The passes are exhausted and the Infinity fixture, whose scene plan failed
\* in an earlier pass as well, has received in its last pass power-off and
\* power-on but not the effect frame
C35_Witness ==
    /\ pc = "exit"
    /\ config.passes >= 2
    /\ attempt > config.passes
    /\ base_command = <<120, 136, 2, 22, 60>>
    /\ ~delivered["L1"]
    /\ "L1" \in DOMAIN failures
    /\ failures["L1"] = "write error"
    /\ Len(Written(sent["L1"])) = 2
    /\ Written(sent["L1"])[1][11] = 0
    /\ Written(sent["L1"])[2][11] = 1

\* The six octets of an address of MAC form
Octets(address) == split_mac_address(address).val

\* C37: connect_light changes hw_mac only when it succeeds for a fixture with
\* infinity_mode = 1 and an address of MAC form, and then hw_mac becomes the
\* address whatever was configured; no other step changes a descriptor; from
\* then on every frame planned and written for that fixture is an envelope
\* that carries the octets of the address.
C37_ConnectSetsHwMac ==
    [][\A f \in Lights :
          LET l == light[f]
              takes == l.infinity_mode = 1 /\ CountColons(l.address) = 5
              connected == tstate[f] = "connecting" /\ tstate'[f] = "done" /\ res'[f].ok
          IN  /\ light'[f] = [l EXCEPT !.hw_mac = light'[f].hw_mac]
              /\ (connected /\ takes) => light'[f].hw_mac = l.address
              /\ ~(connected /\ takes) => light'[f].hw_mac = l.hw_mac
              /\ (takes /\ opened[f]) =>
                     /\ l.hw_mac = l.address
                     /\ \A i \in 1..Len(plan[f]) :
                            SubSeq(plan[f][i].payload, 4, 9) = Octets(l.address)
                     /\ \A i \in 1..Len(sent[f]) :
                            sent[f][i].op = "write" =>
                                SubSeq(sent[f][i].payload, 4, 9) = Octets(l.address)
      ]_vars

\* The Infinity fixture L1, configured with another hw_mac, was connected and
\* sent the scene: hw_mac is its address and the three envelopes carry the
\* octets AA BB CC DD EE 01 of the address
C37_Witness ==
    /\ light["L1"].infinity_mode = 1
    /\ light["L1"].address = DiscoveredLight("L1").address
    /\ light["L1"].address # ConfiguredHwMac
    /\ light["L1"].hw_mac = light["L1"].address
    /\ delivered["L1"]
    /\ Len(Written(sent["L1"])) = 3
    /\ \A i \in 1..3 : SubSeq(Written(sent["L1"])[i], 4, 9) = <<170, 187, 204, 221, 238, 1>>

\* L1 with the same config entry but an address that is not a MAC was
\* connected and keeps the configured hw_mac
C37_KeepsConfigured ==
    /\ light["L1"].infinity_mode = 1
    /\ light["L1"].address = NonMacAddress
    /\ opened["L1"]
    /\ light["L1"].hw_mac = ConfiguredHwMac

\* The part of C39 that the code keeps.  Every attempt takes its mark at the
\* end of the buffer in the step that writes its query, and a payload is
\* returned only if it has the expected type and lies after the mark of the
\* running attempt, so nothing that arrived before that attempt's write (the
\* back-off of the attempt before it included) is ever returned.
C39_OnlyAfterMark ==
    [][\A f \in Lights :
          /\ qtry'[f] = qtry[f] + 1 =>
                 /\ base_idx'[f] = Len(seen[f])
                 /\ seen'[f] = seen[f]
                 /\ ops'[f][Len(ops'[f])] = QueryWriteOp(QueryCommand(qwhich[f]))
          /\ got'[f] # got[f] =>
                 \E i \in (base_idx[f] + 1)..Len(seen[f]) :
                     /\ got'[f][qwhich[f]] = seen[f][i]
                     /\ Len(seen[f][i]) > 1
                     /\ seen[f][i][2] = ExpectedType(qwhich[f])
      ]_vars

\* C39: in query_notify_payload an attempt is satisfied only by a notification
\* recorded after its buffer mark, which is taken just before its query write;
\* a matching notification that arrives during the back-off is never
\* returned; and a matching notification recorded during an attempt's wait
\* window is returned by that attempt, that is, no attempt ends at its
\* deadline while a matching notification lies after its mark.
C39_WaitWindow ==
    [][\A f \in Lights :
          /\ qtry'[f] = qtry[f] + 1 => base_idx'[f] = Len(seen[f])
          /\ got'[f] # got[f] =>
                 \E i \in Matches(f) : got'[f][qwhich[f]] = seen[f][i]
          /\ (qpc[f] = "backoff" /\ qpc'[f] = "write") =>
                 base_idx'[f] = Len(seen'[f])
          /\ (qpc[f] = "wait" /\ qpc'[f] = "backoff") => Matches(f) = {}
      ]_vars

\* query_light_status_once returned after both query_notify_payload calls
\* returned (line 1295 was reached)
BothQueriesReturned(f) ==
    qpc[f] = "stop_notify" /\ qwhich[f] = "channel" /\ qpc'[f] = "done"

TimedOut == "status query timed out (no notify response)"

\* C40: query_light_status_once goes on to the channel query when the power
\* query returned, with or without a payload, and the channel query is
\* written; when both calls returned, the result is a success exactly when
\* at least one payload was kept, the field of a query without payload is
\* UNKNOWN (power) or --- (channel), and the failure is the timeout error,
\* which no other path produces.  In query_status_adaptive every failed query
\* is recorded in failures under its address, and its address is in the next
\* pass exactly when its error is not "not supported".
C40_StatusFailures ==
    [][/\ \A f \in Lights :
            /\ (qwhich[f] = "power" /\ qpc[f] = "stop_notify" /\ qpc'[f] # "cancelled") =>
                   qwhich'[f] = "channel" /\ qpc'[f] = "start_notify"
            /\ (qwhich[f] = "channel" /\ qpc[f] = "start_notify" /\ qpc'[f] = "write") =>
                   ops'[f][Len(ops'[f])] = QueryWriteOp(STATUS_QUERY_CHANNEL)
            /\ BothQueriesReturned(f) =>
                   /\ QueryWrites(ops[f], STATUS_QUERY_CHANNEL) # {}
                   /\ qresult'[f].ok <=> (got[f].power # <<>> \/ got[f].channel # <<>>)
                   /\ qresult'[f].ok =>
                          /\ qresult'[f].err = ""
                          /\ got[f].power = <<>> => qresult'[f].status.power = "UNKNOWN"
                          /\ got[f].channel = <<>> => qresult'[f].status.channel = "---"
                   /\ ~qresult'[f].ok => qresult'[f].err = TimedOut
            /\ qresult'[f].err = TimedOut =>
                   /\ BothQueriesReturned(f)
                   /\ got[f].power = <<>> /\ got[f].channel = <<>>
       /\ (run_mode = "status adaptive" /\ pc = "gather" /\ phase = "send" /\ pc' = "pass") =>
              \A i \in 1..Len(jobs) :
                  ~jobs[i].ok =>
                      /\ jobs[i].addr \in DOMAIN failures'
                      /\ failures'[jobs[i].addr] = jobs[i].err
                      /\ (\E k \in 1..Len(todo') : todo'[k] = jobs[i].addr)
                             <=> jobs[i].err # "not supported"
      ]_vars

\* The call returned a success with the channel only: the power query was
\* written and never answered, the channel query was written and answered
C40_Witness ==
    /\ qpc["L1"] = "done"
    /\ qresult["L1"].ok
    /\ got["L1"].power = <<>>
    /\ got["L1"].channel = <<120, 1, 1, 5>>
    /\ QueryWrites(ops["L1"], STATUS_QUERY_POWER) # {}
    /\ QueryWrites(ops["L1"], STATUS_QUERY_CHANNEL) # {}

\* A pass of query_status_adaptive ended with one fixture "not supported" and
\* another failed: only the second one is in the next pass
C40_NotSupportedDropped ==
    /\ run_mode = "status adaptive"
    /\ pc = "pass"
    /\ attempt <= config.passes
    /\ \E a \in DOMAIN failures :
           /\ failures[a] = "not supported"
           /\ \A k \in 1..Len(todo) : todo[k] # a
    /\ \E b \in DOMAIN failures :
           /\ failures[b] = "failed"
           /\ \E k \in 1..Len(todo) : todo[k] = b

\* ------------------------------------------------------------------------
\* Properties of the configuration-layer functions
\* ------------------------------------------------------------------------

\* C23: tag_checksum(P) is P followed by exactly one byte, the sum of P
\* modulo 256, so that removing the last byte gives back P; a negative
\* element counts as its residue modulo 256.
C23_ChecksumAppended ==
    (run_mode = "setup" /\ opc = "done" /\ untagged \in Payloads) =>
        LET n == Len(untagged)
        IN  /\ Len(tagged) = n + 1
            /\ SubSeq(tagged, 1, n) = untagged
            /\ tagged[n + 1] \in 0..255
            /\ tagged[n + 1] = SumSeq(untagged) % 256
            /\ tagged[n + 1] = SumSeq([i \in 1..n |-> untagged[i] % 256]) % 256

\* The payload [-1, 1] has been tagged: -1 counts as 255 and the sum is 0
C23_Witness ==
    /\ opc = "done"
    /\ untagged = <<-1, 1>>
    /\ tagged = <<-1, 1, 0>>

\* C24: selector_to_addresses returns None ("all discovered") for ALL, * and
\* the empty selector; for any other selector it fails with ConfigError
\* when a token names an unknown group or is a malformed MAC, and otherwise
\* returns the union of the upper-cased MACs and the members of the groups.
C24_SelectorResolved ==
    (run_mode = "setup" /\ opc = "done" /\ selector \in Selectors) =>
        LET tokens == SelectorTokens(selector)
            IsGroup(tok) == StartsWith(Lower(tok), GroupPrefix)
            WellFormedMac(tok) ==
                /\ Len(tok) = 17
                /\ \A i \in 1..17 : IF i % 3 = 0 THEN tok[i] = ":"
                                                   ELSE IsHexChar(tok[i])
            Bad(tok) == IF IsGroup(tok)
                        THEN AfterFirstColon(tok) \notin DOMAIN groups
                        ELSE ~WellFormedMac(tok)
            Members(tok) == IF IsGroup(tok) THEN groups[AfterFirstColon(tok)]
                            ELSE {Upper(tok)}
        IN  IF Strip(selector) = <<>> \/ Upper(selector) \in {<<"A","L","L">>, <<"*">>}
            THEN resolved = Ok(<<>>)
            ELSE IF \E i \in 1..Len(tokens) : Bad(tokens[i])
            THEN ~resolved.ok /\ resolved.err = "ConfigError"
            ELSE resolved = Ok(<<UNION {Members(tokens[i]) : i \in 1..Len(tokens)}>>)

\* C25: laying the defaults and then the preset over the command line never
\* changes a setting that the caller passed, and a preset's power field
\* changes neither on nor off when --on or --off was passed.
C25_OverlayKeepsCli ==
    (run_mode = "setup" /\ opc \in {"defaults", "preset", "done", "error"}) =>
        /\ \A a \in DOMAIN passed : args[a] = passed[a]
        /\ (<<"o","n">> \in DOMAIN passed \/ <<"o","f","f">> \in DOMAIN passed) =>
               /\ args[<<"o","n">>].v = (<<"o","n">> \in DOMAIN passed)
               /\ args[<<"o","f","f">>].v = (<<"o","f","f">> \in DOMAIN passed)

====
